---- MODULE Spec2Model ----
(***************************************************************************)
(* prisma-ezfilter: the query compiler (builders/queryBuilder.ts), the      *)
(* validator (utils/validation.ts), the field transformer                  *)
(* (transformers/queryTransformer.ts), the BuildQueryFilter class and the  *)
(* parameter extractor (utils/queryExtractor.ts), as operators over a      *)
(* small model of JavaScript values.                                       *)
(*                                                                         *)
(* A JavaScript value is a record [kind, val]; a string is the sequence of *)
(* its characters, so that includes('.') and split('.') are computed and   *)
(* not assumed.  An object is the sequence of its own entries [key, val]   *)
(* in Object.entries order.                                                *)
(***************************************************************************)
EXTENDS Integers, Sequences, FiniteSets, TLC

VARIABLES
    filter,          \* the FilteringQuery at hand
    specification,   \* the QuerySpecification held or passed, or undefined
    query,           \* the query options last returned
    validation,      \* the ValidationResult last returned
    transformConfig, \* the TransformConfig held or passed, or undefined
    queryParams,     \* the raw parameter mapping given to the extractor
    calls            \* the calls made so far, each with its argument

vars == <<filter, specification, query, validation, transformConfig,
          queryParams, calls>>

-----------------------------------------------------------------------------
(* JavaScript values *)

Undef == [kind |-> "undefined", val |-> <<>>]
Null == [kind |-> "null", val |-> <<>>]
NaN == [kind |-> "NaN", val |-> <<>>]
Str(s) == [kind |-> "string", val |-> s]
Num(n) == [kind |-> "number", val |-> n]
Bool(b) == [kind |-> "boolean", val |-> b]
Arr(items) == [kind |-> "array", val |-> items]
Obj(entries) == [kind |-> "object", val |-> entries]
Entry(k, v) == [key |-> k, val |-> v]

\* value === null || value === undefined
IsNullish(v) == v.kind = "null" \/ v.kind = "undefined"

\* JavaScript truthiness, as tested by if (v) and by v && ...
Truthy(v) ==
    CASE v.kind = "undefined" -> FALSE
      [] v.kind = "null" -> FALSE
      [] v.kind = "NaN" -> FALSE
      [] v.kind = "boolean" -> v.val
      [] v.kind = "number" -> v.val # 0
      [] v.kind = "string" -> v.val # <<>>
      [] OTHER -> TRUE

\* Array.isArray(v)
IsArray(v) == v.kind = "array"

\* obj[key] on a plain object: the value of its own property, else undefined
Get(obj, key) ==
    IF obj.kind = "object" /\ \E i \in 1..Len(obj.val) : obj.val[i].key = key
    THEN obj.val[CHOOSE i \in 1..Len(obj.val) : obj.val[i].key = key].val
    ELSE Undef

\* a < b on JavaScript numbers: false as soon as one side is NaN
NumLess(a, b) == a.kind = "number" /\ b.kind = "number" /\ a.val < b.val

MapSeq(s, F(_)) == [i \in 1..Len(s) |-> F(s[i])]

RECURSIVE Flatten(_)
Flatten(ss) == IF ss = <<>> THEN <<>> ELSE Head(ss) \o Flatten(Tail(ss))

\* property names the code writes as literals
kAND == <<"A", "N", "D">>
kOR == <<"O", "R">>
kContains == <<"c", "o", "n", "t", "a", "i", "n", "s">>
kGte == <<"g", "t", "e">>
kLte == <<"l", "t", "e">>
sAsc == <<"a", "s", "c">>
sDesc == <<"d", "e", "s", "c">>

\* key.includes('.')
IncludesDot(s) == \E i \in 1..Len(s) : s[i] = "."

\* key.split('.'): every dot separates, empty parts are kept
RECURSIVE SplitDot(_)
SplitDot(s) ==
    IF ~IncludesDot(s) THEN <<s>>
    ELSE LET i == CHOOSE j \in 1..Len(s) :
                      s[j] = "." /\ \A k \in 1..(j - 1) : s[k] # "."
         IN <<SubSeq(s, 1, i - 1)>> \o SplitDot(SubSeq(s, i + 1, Len(s)))

-----------------------------------------------------------------------------
(* builders/queryBuilder.ts *)

\* a FilteringQuery: a property left out is undefined
Request(f, s, r, ok, orule, p, rw) ==
    [filters |-> f, searchFilters |-> s, rangedFilters |-> r,
     orderKey |-> ok, orderRule |-> orule, page |-> p, rows |-> rw]

DigitChars == <<"0", "1", "2", "3", "4", "5", "6", "7", "8", "9">>

\* String(n) for an index n
RECURSIVE Decimal(_)
Decimal(n) ==
    IF n < 10 THEN <<DigitChars[n + 1]>>
    ELSE Decimal(n \div 10) \o <<DigitChars[(n % 10) + 1]>>

\* Object.entries(v): the own entries of an object, the indexed elements of an
\* array, the indexed characters of a string, nothing for another value
ObjectEntries(v) ==
    CASE v.kind = "object" -> v.val
      [] v.kind = "array" -> [i \in 1..Len(v.val) |-> Entry(Decimal(i - 1), v.val[i])]
      [] v.kind = "string" ->
             [i \in 1..Len(v.val) |-> Entry(Decimal(i - 1), Str(<<v.val[i]>>))]
      [] OTHER -> <<>>

\* the condition pushed for one filters entry with a non-null value
WhereCondition(key, value) ==
    IF IncludesDot(key)
    THEN LET parts == SplitDot(key)
             relation == parts[1]
             column == parts[2]
             Scoped(val) == Obj(<<Entry(relation, Obj(<<Entry(column, val)>>))>>)
         IN IF IsArray(value)
            THEN Obj(<<Entry(kOR, Arr(MapSeq(value.val, Scoped)))>>)
            ELSE Scoped(value)
    ELSE LET Plain(val) == Obj(<<Entry(key, val)>>)
         IN IF IsArray(value)
            THEN Obj(<<Entry(kOR, Arr(MapSeq(value.val, Plain)))>>)
            ELSE Plain(value)

\* buildWhereQuery without the null check of its loop
buildWhereQueryKeepingNull(filters) ==
    Flatten(MapSeq(ObjectEntries(filters), LAMBDA e : <<WhereCondition(e.key, e.val)>>))

buildWhereQuery(filters) ==
    LET Pushed(e) == IF IsNullish(e.val) THEN <<>>
                     ELSE <<WhereCondition(e.key, e.val)>>
    IN Flatten(MapSeq(ObjectEntries(filters), Pushed))

\* the contains-predicate built for one searchFilters entry
SearchCondition(key, value) ==
    IF IncludesDot(key)
    THEN LET parts == SplitDot(key)
             relation == parts[1]
             column == parts[2]
         IN Obj(<<Entry(relation,
                        Obj(<<Entry(column, Obj(<<Entry(kContains, value)>>))>>))>>)
    ELSE Obj(<<Entry(key, Obj(<<Entry(kContains, value)>>))>>)

\* buildSearchQuery deciding on the OR wrapper from the predicates it built
buildSearchQueryCountingBuilt(searchFilters) ==
    LET Built(e) == IF IsNullish(e.val) THEN <<>>
                    ELSE <<SearchCondition(e.key, e.val)>>
        searchQueries == Flatten(MapSeq(ObjectEntries(searchFilters), Built))
    IN IF Len(searchQueries) > 1
       THEN <<Obj(<<Entry(kOR, Arr(searchQueries))>>)>>
       ELSE searchQueries

buildSearchQuery(searchFilters) ==
    LET isMultiKey == Len(ObjectEntries(searchFilters)) > 1
        Built(e) == IF IsNullish(e.val) THEN <<>>
                    ELSE <<SearchCondition(e.key, e.val)>>
        searchQueries == Flatten(MapSeq(ObjectEntries(searchFilters), Built))
    IN IF isMultiKey
       THEN IF Len(searchQueries) > 0
            THEN <<Obj(<<Entry(kOR, Arr(searchQueries))>>)>>
            ELSE <<>>
       ELSE searchQueries

\* RangeCondition with the two bounds exchanged
RangeConditionSwapped(range) ==
    LET bounds == Obj(<<Entry(kGte, range.end), Entry(kLte, range.start)>>)
    IN IF IncludesDot(range.key.val)
       THEN LET parts == SplitDot(range.key.val)
            IN Obj(<<Entry(parts[1], Obj(<<Entry(parts[2], bounds)>>))>>)
       ELSE Obj(<<Entry(range.key.val, bounds)>>)

\* the condition pushed for one ranged filter
RangeCondition(range) ==
    LET bounds == Obj(<<Entry(kGte, range.start), Entry(kLte, range.end)>>)
    IN IF IncludesDot(range.key.val)
       THEN LET parts == SplitDot(range.key.val)
                relation == parts[1]
                column == parts[2]
            IN Obj(<<Entry(relation, Obj(<<Entry(column, bounds)>>))>>)
       ELSE Obj(<<Entry(range.key.val, bounds)>>)

buildRangedFilter(rangedFilters) == MapSeq(rangedFilters.val, RangeCondition)

Thrown == [kind |-> "thrown", val |-> <<>>]

kKey == <<"k", "e", "y">>
kStart == <<"s", "t", "a", "r", "t">>
kEnd == <<"e", "n", "d">>

\* range.key, range.start and range.end as read from one element of
\* rangedFilters: a property that is not there reads as undefined
RangeRead(v) ==
    IF "key" \in DOMAIN v THEN v
    ELSE [key |-> Get(v, kKey), start |-> Get(v, kStart), end |-> Get(v, kEnd)]

\* buildRangedFilter raises a TypeError: for...of over a value that is not
\* iterable (a number, a boolean, an object), or range.key.includes on an
\* element whose key is not a string (undefined for a missing key and for an
\* element, or a character of a string, without that property).  Keys that
\* are arrays are not among the inputs.
buildRangedFilterRaises(rangedFilters) ==
    CASE rangedFilters.kind = "array" ->
             \E i \in 1..Len(rangedFilters.val) :
                 RangeRead(rangedFilters.val[i]).key.kind # "string"
      [] rangedFilters.kind = "string" -> Len(rangedFilters.val) > 0
      [] OTHER -> TRUE

buildFilterQueryRaises(f) ==
    Truthy(f.rangedFilters) /\ buildRangedFilterRaises(f.rangedFilters)

\* the request with each element of rangedFilters as buildRangedFilter reads it
RangesRead(f) ==
    [f EXCEPT !.rangedFilters =
        IF IsArray(@) THEN Arr([i \in 1..Len(@.val) |-> RangeRead(@.val[i])]) ELSE @]

DefaultTake == 10

\* buildPagination counting pages from 0
buildPaginationFromZero(f) ==
    IF Truthy(f.page)
    THEN IF Truthy(f.rows)
         THEN [take |-> f.rows, skip |-> Num(f.page.val * f.rows.val)]
         ELSE [take |-> Num(DefaultTake), skip |-> Num(DefaultTake * f.page.val)]
    ELSE [take |-> Num(DefaultTake), skip |-> Num(0)]

buildPagination(f) ==
    IF Truthy(f.page)
    THEN IF Truthy(f.rows)
         THEN [take |-> f.rows, skip |-> Num((f.page.val - 1) * f.rows.val)]
         ELSE [take |-> Num(DefaultTake), skip |-> Num(DefaultTake * (f.page.val - 1))]
    ELSE [take |-> Num(DefaultTake), skip |-> Num(0)]

buildFilterQuery(f) ==
    LET and1 == IF Truthy(f.filters) THEN buildWhereQuery(f.filters) ELSE <<>>
        and2 == IF Truthy(f.searchFilters)
                THEN and1 \o buildSearchQuery(f.searchFilters) ELSE and1
        and3 == IF Truthy(f.rangedFilters)
                THEN and2 \o buildRangedFilter(f.rangedFilters) ELSE and2
        orderBy == IF Truthy(f.orderKey)
                   THEN Obj(<<Entry(f.orderKey.val,
                                    IF IsNullish(f.orderRule) THEN Str(sAsc)
                                    ELSE f.orderRule)>>)
                   ELSE Obj(<<>>)
        pagination == buildPagination(f)
    IN [where |-> Obj(<<Entry(kAND, Arr(and3))>>),
        orderBy |-> orderBy,
        take |-> pagination.take,
        skip |-> pagination.skip]

-----------------------------------------------------------------------------
(* utils/validation.ts *)

\* the messages pushed to errors and warnings: the literal text around the
\* interpolated values, and the interpolated values in order
Message(text, args) == [text |-> text, args |-> args]

\* array.includes(s) for an array of strings
Includes(array, s) == \E i \in 1..Len(array.val) : array.val[i] = Str(s)

\* specification.allowedFields && !specification.allowedFields.includes(field)
NotInAllowedFields(spec, field) ==
    Truthy(spec.val.allowedFields) /\ ~Includes(spec.val.allowedFields, field)

\* the relation check shared by the four field validators: the errors pushed
\* for one field path
RelationErrors(spec, field, text) ==
    IF IncludesDot(field)
    THEN LET parts == SplitDot(field)
             relation == parts[1]
         IN IF /\ Truthy(Str(relation))
               /\ Truthy(spec.val.allowedRelations)
               /\ ~Includes(spec.val.allowedRelations, relation)
            THEN <<Message(text, <<Str(relation)>>)>>
            ELSE <<>>
    ELSE <<>>

Digits == {"0", "1", "2", "3", "4", "5", "6", "7", "8", "9"}

DigitValue(c) ==
    CASE c = "0" -> 0 [] c = "1" -> 1 [] c = "2" -> 2 [] c = "3" -> 3
      [] c = "4" -> 4 [] c = "5" -> 5 [] c = "6" -> 6 [] c = "7" -> 7
      [] c = "8" -> 8 [] c = "9" -> 9

\* /^\d{4}-\d{2}-\d{2}T\d{2}:\d{2}:\d{2}(?:\.\d+)?Z$/.test(s)
DateRegexTest(s) ==
    /\ Len(s) >= 20
    /\ \A i \in {1, 2, 3, 4, 6, 7, 9, 10, 12, 13, 15, 16, 18, 19} : s[i] \in Digits
    /\ s[5] = "-" /\ s[8] = "-" /\ s[11] = "T" /\ s[14] = ":" /\ s[17] = ":"
    /\ \/ Len(s) = 20 /\ s[20] = "Z"
       \/ /\ Len(s) >= 22
          /\ s[20] = "."
          /\ \A i \in 21..(Len(s) - 1) : s[i] \in Digits
          /\ s[Len(s)] = "Z"

isValidDate(dateString) ==
    IF dateString.kind # "string" THEN FALSE ELSE DateRegexTest(dateString.val)

\* the number written by the digits s[from..to]
RECURSIVE DigitsValue(_, _, _)
DigitsValue(s, from, to) ==
    IF to < from THEN 0
    ELSE 10 * DigitsValue(s, from, to - 1) + DigitValue(s[to])

\* days from 1970-01-01 of a civil date; a day past the end of its month runs
\* on into the next month
DaysFromCivil(year, month, day) ==
    LET y == IF month <= 2 THEN year - 1 ELSE year
        era == y \div 400
        yoe == y - era * 400
        mp == (month + 9) % 12
        doy == (153 * mp + 2) \div 5 + day - 1
        doe == yoe * 365 + yoe \div 4 - yoe \div 100 + doy
    IN era * 146097 + doe - 719468

MsPerDay == 24 * 60 * 60 * 1000

\* new Date(s) for a string that passed DateRegexTest: the time value as
\* <<day, millisecond of the day>>, or NaN (Invalid Date) when a field is out
\* of range.  Fraction digits after the third are dropped.
NewDate(s) ==
    LET year == DigitsValue(s, 1, 4)
        month == DigitsValue(s, 6, 7)
        day == DigitsValue(s, 9, 10)
        hour == DigitsValue(s, 12, 13)
        minute == DigitsValue(s, 15, 16)
        second == DigitsValue(s, 18, 19)
        nfrac == IF Len(s) = 20 THEN 0 ELSE Len(s) - 21
        ms == CASE nfrac = 0 -> 0
                [] nfrac = 1 -> 100 * DigitsValue(s, 21, 21)
                [] nfrac = 2 -> 10 * DigitsValue(s, 21, 22)
                [] OTHER -> DigitsValue(s, 21, 23)
        inRange == /\ month \in 1..12
                   /\ day \in 1..31
                   /\ minute \in 0..59
                   /\ second \in 0..59
                   /\ \/ hour \in 0..23
                      \/ hour = 24 /\ minute = 0 /\ second = 0 /\ ms = 0
        msOfDay == ((hour * 60 + minute) * 60 + second) * 1000 + ms
        days == DaysFromCivil(year, month, day)
    IN IF ~inRange THEN NaN
       ELSE [kind |-> "date",
             val |-> <<days + msOfDay \div MsPerDay, msOfDay % MsPerDay>>]

\* DateGreater with >= for >
DateGreaterOrEqual(a, b) ==
    /\ a.kind = "date"
    /\ b.kind = "date"
    /\ \/ a.val[1] > b.val[1]
       \/ a.val[1] = b.val[1] /\ a.val[2] >= b.val[2]

\* startDate > endDate on Date objects: false when either is an Invalid Date
DateGreater(a, b) ==
    /\ a.kind = "date"
    /\ b.kind = "date"
    /\ \/ a.val[1] > b.val[1]
       \/ a.val[1] = b.val[1] /\ a.val[2] > b.val[2]

Outcome(errors, warnings) == [errors |-> errors, warnings |-> warnings]

\* what the validators push for one entry, errors and warnings each in order
FilterFieldOutcome(spec, e) ==
    IF IsNullish(e.val) THEN Outcome(<<>>, <<>>)
    ELSE LET forbidden == /\ NotInAllowedFields(spec, e.key)
                          /\ Truthy(spec.val.forbiddenFields)
                          /\ Includes(spec.val.forbiddenFields, e.key)
             warned == NotInAllowedFields(spec, e.key) /\ ~forbidden
         IN Outcome(
              (IF forbidden
               THEN <<Message("Field '%' is forbidden", <<Str(e.key)>>)>>
               ELSE <<>>)
              \o RelationErrors(spec, e.key, "Relation '%' is not allowed"),
              IF warned
              THEN <<Message("Field '%' is not in allowed fields list", <<Str(e.key)>>)>>
              ELSE <<>>)

SearchFieldOutcome(spec, e) ==
    IF IsNullish(e.val) THEN Outcome(<<>>, <<>>)
    ELSE Outcome(
           RelationErrors(spec, e.key, "Search relation '%' is not allowed"),
           IF NotInAllowedFields(spec, e.key)
           THEN <<Message("Search field '%' is not in allowed fields list",
                          <<Str(e.key)>>)>>
           ELSE <<>>)

RangeOutcome(spec, range) ==
    Outcome(
      RelationErrors(spec, range.key.val, "Range relation '%' is not allowed")
      \o (IF /\ isValidDate(range.start)
             /\ isValidDate(range.end)
             /\ DateGreater(NewDate(range.start.val), NewDate(range.end.val))
          THEN <<Message("Range start date '%' is after end date '%'",
                         <<range.start, range.end>>)>>
          ELSE <<>>),
      IF NotInAllowedFields(spec, range.key.val)
      THEN <<Message("Range field '%' is not in allowed fields list", <<range.key>>)>>
      ELSE <<>>)

\* the outcomes of a loop over entries, concatenated in loop order
Collected(outcomes) ==
    Outcome(Flatten(MapSeq(outcomes, LAMBDA o : o.errors)),
            Flatten(MapSeq(outcomes, LAMBDA o : o.warnings)))

validateFilters(filters, spec) ==
    Collected(MapSeq(filters.val, LAMBDA e : FilterFieldOutcome(spec, e)))

validateSearchFilters(searchFilters, spec) ==
    Collected(MapSeq(searchFilters.val, LAMBDA e : SearchFieldOutcome(spec, e)))

validateRangedFilters(rangedFilters, spec) ==
    Collected(MapSeq(rangedFilters.val, LAMBDA r : RangeOutcome(spec, r)))

validateOrderKey(orderKey, spec) ==
    Outcome(
      RelationErrors(spec, orderKey.val, "Order relation '%' is not allowed"),
      IF NotInAllowedFields(spec, orderKey.val)
      THEN <<Message("Order field '%' is not in allowed fields list", <<orderKey>>)>>
      ELSE <<>>)

\* validatePagination returning after the page error
validatePaginationFirstOnly(q, spec) ==
    IF q.page # Undef /\ NumLess(q.page, Num(1))
    THEN <<Message("Page number must be greater than 0", <<>>)>>
    ELSE IF q.rows # Undef
         THEN IF NumLess(q.rows, Num(1))
              THEN <<Message("Rows per page must be greater than 0", <<>>)>>
              ELSE IF Truthy(spec.val.maxPageSize) /\ NumLess(spec.val.maxPageSize, q.rows)
                   THEN <<Message("Rows per page cannot exceed %", <<spec.val.maxPageSize>>)>>
                   ELSE <<>>
         ELSE <<>>

validatePagination(q, spec) ==
    (IF q.page # Undef /\ NumLess(q.page, Num(1))
     THEN <<Message("Page number must be greater than 0", <<>>)>>
     ELSE <<>>)
    \o (IF q.rows # Undef
        THEN IF NumLess(q.rows, Num(1))
             THEN <<Message("Rows per page must be greater than 0", <<>>)>>
             ELSE IF Truthy(spec.val.maxPageSize) /\ NumLess(spec.val.maxPageSize, q.rows)
                  THEN <<Message("Rows per page cannot exceed %", <<spec.val.maxPageSize>>)>>
                  ELSE <<>>
        ELSE <<>>)

\* validateQuery checking the page and rows numbers before it looks for a
\* specification
validateQueryPaginationFirst(q, spec) ==
    LET errors == (IF q.page # Undef /\ NumLess(q.page, Num(1))
                   THEN <<Message("Page number must be greater than 0", <<>>)>>
                   ELSE <<>>)
                  \o (IF q.rows # Undef /\ NumLess(q.rows, Num(1))
                      THEN <<Message("Rows per page must be greater than 0", <<>>)>>
                      ELSE <<>>)
    IN [isValid |-> Len(errors) = 0, errors |-> errors, warnings |-> <<>>]

validateQuery(q, spec) ==
    IF ~Truthy(spec)
    THEN [isValid |-> TRUE, errors |-> <<>>, warnings |-> <<>>]
    ELSE LET none == Outcome(<<>>, <<>>)
             f == IF Truthy(q.filters) THEN validateFilters(q.filters, spec) ELSE none
             s == IF Truthy(q.searchFilters)
                  THEN validateSearchFilters(q.searchFilters, spec) ELSE none
             r == IF Truthy(q.rangedFilters)
                  THEN validateRangedFilters(q.rangedFilters, spec) ELSE none
             o == IF Truthy(q.orderKey) THEN validateOrderKey(q.orderKey, spec) ELSE none
             errors == f.errors \o s.errors \o r.errors \o o.errors
                       \o validatePagination(q, spec)
             warnings == f.warnings \o s.warnings \o r.warnings \o o.warnings
         IN [isValid |-> Len(errors) = 0, errors |-> errors, warnings |-> warnings]

-----------------------------------------------------------------------------
(* transformers/queryTransformer.ts *)

kEquals == <<"e", "q", "u", "a", "l", "s">>
kStartsWith == <<"s", "t", "a", "r", "t", "s", "W", "i", "t", "h">>
kEndsWith == <<"e", "n", "d", "s", "W", "i", "t", "h">>
tNumber == <<"n", "u", "m", "b", "e", "r">>
tBoolean == <<"b", "o", "o", "l", "e", "a", "n">>
tDate == <<"d", "a", "t", "e">>
tString == <<"s", "t", "r", "i", "n", "g">>
tCustom == <<"c", "u", "s", "t", "o", "m">>

\* key in obj
In(key, obj) == \E i \in 1..Len(obj.val) : obj.val[i].key = key

\* obj[key] = v on the entries of obj: an own property keeps its place, a new
\* one goes last
Assign(entries, key, v) ==
    IF \E i \in 1..Len(entries) : entries[i].key = key
    THEN [i \in 1..Len(entries) |->
             IF entries[i].key = key THEN Entry(key, v) ELSE entries[i]]
    ELSE Append(entries, Entry(key, v))

\* typeof v === 'object'
TypeofObject(v) == v.kind \in {"object", "array", "null", "date"}

\* the destructuring default = {} of an optional part of the config
OrEmpty(v) == IF v.kind = "undefined" THEN Obj(<<>>) ELSE v

TransformConfig(fm, fnm, fth, rh) ==
    [kind |-> "object",
     val |-> [fieldMappings |-> fm, fieldNameMappings |-> fnm,
              fieldTypeHandlers |-> fth, relationHandlers |-> rh]]

FieldTypeHandler(type, searchOperator, customHandler) ==
    [kind |-> "object",
     val |-> [type |-> type, searchOperator |-> searchOperator,
              customHandler |-> customHandler]]

RelationHandler(type, relationQuery, nestedField, customHandler) ==
    [kind |-> "object",
     val |-> [type |-> type, relationQuery |-> relationQuery,
              nestedField |-> nestedField, customHandler |-> customHandler]]

\* a function given as customHandler, by name
Fn(name) == [kind |-> "function", val |-> name]

kSome == <<"s", "o", "m", "e">>
kIs == <<"i", "s">>

\* the custom handlers the configurations hold, applied to their arguments:
\*   some       (value, field) => ({ some: { [field]: value } })
\*   is         (value) => ({ is: value })
\*   null       () => null
\*   undefined  () => undefined
Call(fn, args) ==
    CASE fn.val = "some" ->
             Obj(<<Entry(kSome, Obj(<<Entry(args[2].val, args[1])>>))>>)
      [] fn.val = "is" -> Obj(<<Entry(kIs, args[1])>>)
      [] fn.val = "null" -> Null
      [] fn.val = "undefined" -> Undef

RECURSIVE extractRawValue(_)
extractRawValue(value) ==
    IF value.kind # "object" THEN value
    ELSE IF In(kContains, value)
    THEN IF TypeofObject(Get(value, kContains))
         THEN extractRawValue(Get(value, kContains))
         ELSE Get(value, kContains)
    ELSE IF In(kEquals, value)
    THEN IF TypeofObject(Get(value, kEquals))
         THEN extractRawValue(Get(value, kEquals))
         ELSE Get(value, kEquals)
    ELSE IF In(kStartsWith, value) THEN Get(value, kStartsWith)
    ELSE IF In(kEndsWith, value) THEN Get(value, kEndsWith)
    ELSE IF Len(value.val) > 0 THEN value.val[1].val
    ELSE value

Space == " "

RECURSIVE TrimStart(_)
TrimStart(s) == IF s # <<>> /\ Head(s) = Space THEN TrimStart(Tail(s)) ELSE s

RECURSIVE TrimEnd(_)
TrimEnd(s) ==
    IF s # <<>> /\ s[Len(s)] = Space THEN TrimEnd(SubSeq(s, 1, Len(s) - 1)) ELSE s

AllDigits(s) == s # <<>> /\ \A i \in 1..Len(s) : s[i] \in Digits

\* Number(s) of a string: blanks trimmed, the empty string is 0, an optional
\* sign and decimal digits are their integer, anything else is NaN.  Strings
\* with a fraction, an exponent, a radix prefix or Infinity are not among the
\* inputs.
StringToNumber(s) ==
    LET t == TrimEnd(TrimStart(s))
    IN CASE t = <<>> -> Num(0)
         [] AllDigits(t) -> Num(DigitsValue(t, 1, Len(t)))
         [] Len(t) > 1 /\ t[1] = "+" /\ AllDigits(Tail(t)) ->
                Num(DigitsValue(t, 2, Len(t)))
         [] Len(t) > 1 /\ t[1] = "-" /\ AllDigits(Tail(t)) ->
                Num(0 - DigitsValue(t, 2, Len(t)))
         [] OTHER -> NaN

\* isNaN(v): v converted to a number is NaN
IsNaN(v) ==
    CASE v.kind = "number" -> FALSE
      [] v.kind = "NaN" -> TRUE
      [] v.kind = "undefined" -> TRUE
      [] v.kind = "null" -> FALSE
      [] v.kind = "boolean" -> FALSE
      [] v.kind = "date" -> FALSE
      [] v.kind = "string" -> StringToNumber(v.val).kind = "NaN"
      [] v.kind = "array" ->
             CASE Len(v.val) = 0 -> FALSE
               [] Len(v.val) = 1 ->
                      CASE v.val[1].kind = "string" ->
                               StringToNumber(v.val[1].val).kind = "NaN"
                        [] v.val[1].kind \in {"number", "null", "undefined"} -> FALSE
                        [] OTHER -> TRUE
               [] OTHER -> TRUE
      [] OTHER -> TRUE

UpperCase ==
    <<"A", "B", "C", "D", "E", "F", "G", "H", "I", "J", "K", "L", "M",
      "N", "O", "P", "Q", "R", "S", "T", "U", "V", "W", "X", "Y", "Z">>
LowerCase ==
    <<"a", "b", "c", "d", "e", "f", "g", "h", "i", "j", "k", "l", "m",
      "n", "o", "p", "q", "r", "s", "t", "u", "v", "w", "x", "y", "z">>

\* s.toLowerCase()
toLowerCase(s) ==
    [i \in 1..Len(s) |->
        IF \E j \in 1..26 : UpperCase[j] = s[i]
        THEN LowerCase[CHOOSE j \in 1..26 : UpperCase[j] = s[i]]
        ELSE s[i]]

kTrue == <<"t", "r", "u", "e">>

\* /^\d{4}-\d{2}-\d{2}$/ : the date-only form, read as midnight UTC
DateOnlyForm(s) ==
    /\ Len(s) = 10
    /\ \A i \in {1, 2, 3, 4, 6, 7, 9, 10} : s[i] \in Digits
    /\ s[5] = "-" /\ s[8] = "-"

\* rawValue instanceof Date ? rawValue : new Date(rawValue).  NaN stands for
\* the Invalid Date.  A string is read in the date-time form of NewDate or in
\* the date-only form; a string in neither form that holds no digit is
\* invalid, and strings with digits in another form (left to the engine's own
\* parser) are not among the inputs.
DateOf(rawValue) ==
    CASE rawValue.kind = "date" -> rawValue
      [] rawValue.kind = "string" ->
             IF DateRegexTest(rawValue.val) THEN NewDate(rawValue.val)
             ELSE IF DateOnlyForm(rawValue.val)
             THEN LET month == DigitsValue(rawValue.val, 6, 7)
                      day == DigitsValue(rawValue.val, 9, 10)
                  IN IF month \in 1..12 /\ day \in 1..31
                     THEN [kind |-> "date",
                           val |-> <<DaysFromCivil(DigitsValue(rawValue.val, 1, 4),
                                                   month, day), 0>>]
                     ELSE NaN
             ELSE NaN
      [] rawValue.kind = "number" ->
             [kind |-> "date",
              val |-> <<rawValue.val \div MsPerDay, rawValue.val % MsPerDay>>]
      [] rawValue.kind = "null" -> [kind |-> "date", val |-> <<0, 0>>]
      [] rawValue.kind = "boolean" ->
             [kind |-> "date", val |-> <<0, IF rawValue.val THEN 1 ELSE 0>>]
      [] OTHER -> NaN

\* typeHandler.searchOperator || fallback, as a property name
OperatorOr(typeHandler, fallback) ==
    IF Truthy(typeHandler.val.searchOperator)
    THEN typeHandler.val.searchOperator.val
    ELSE fallback

\* processFieldValue with the configured operator on a boolean as well
processFieldValueBooleanOperator(value, typeHandler) ==
    LET rawValue == extractRawValue(value)
    IN IF ~Truthy(typeHandler)
       THEN IF rawValue.kind = "string"
            THEN Obj(<<Entry(kContains, rawValue)>>)
            ELSE IF Truthy(rawValue) /\ TypeofObject(rawValue) /\ ~IsArray(rawValue)
            THEN rawValue
            ELSE Obj(<<Entry(kEquals, rawValue)>>)
       ELSE IF Truthy(typeHandler.val.customHandler)
       THEN Call(typeHandler.val.customHandler, <<rawValue>>)
       ELSE CASE typeHandler.val.type = Str(tNumber) ->
                     LET numValue == IF rawValue.kind = "string"
                                     THEN StringToNumber(rawValue.val)
                                     ELSE rawValue
                     IN IF IsNaN(numValue) THEN Null
                        ELSE Obj(<<Entry(OperatorOr(typeHandler, kEquals), numValue)>>)
              [] typeHandler.val.type = Str(tBoolean) ->
                     LET boolValue == IF rawValue.kind = "string"
                                      THEN toLowerCase(rawValue.val) = kTrue
                                      ELSE Truthy(rawValue)
                     IN Obj(<<Entry(OperatorOr(typeHandler, kEquals), Bool(boolValue))>>)
              [] typeHandler.val.type = Str(tDate) ->
                     LET dateValue == DateOf(rawValue)
                     IN IF dateValue.kind = "NaN" THEN Null
                        ELSE Obj(<<Entry(OperatorOr(typeHandler, kEquals), dateValue)>>)
              [] typeHandler.val.type = Str(tString) ->
                     Obj(<<Entry(OperatorOr(typeHandler, kContains), rawValue)>>)
              [] OTHER -> Obj(<<Entry(kEquals, rawValue)>>)

processFieldValue(value, typeHandler) ==
    LET rawValue == extractRawValue(value)
    IN IF ~Truthy(typeHandler)
       THEN IF rawValue.kind = "string"
            THEN Obj(<<Entry(kContains, rawValue)>>)
            ELSE IF Truthy(rawValue) /\ TypeofObject(rawValue) /\ ~IsArray(rawValue)
            THEN rawValue
            ELSE Obj(<<Entry(kEquals, rawValue)>>)
       ELSE IF Truthy(typeHandler.val.customHandler)
       THEN Call(typeHandler.val.customHandler, <<rawValue>>)
       ELSE CASE typeHandler.val.type = Str(tNumber) ->
                     LET numValue == IF rawValue.kind = "string"
                                     THEN StringToNumber(rawValue.val)
                                     ELSE rawValue
                     IN IF IsNaN(numValue) THEN Null
                        ELSE Obj(<<Entry(OperatorOr(typeHandler, kEquals), numValue)>>)
              [] typeHandler.val.type = Str(tBoolean) ->
                     LET boolValue == IF rawValue.kind = "string"
                                      THEN toLowerCase(rawValue.val) = kTrue
                                      ELSE Truthy(rawValue)
                     IN Obj(<<Entry(kEquals, Bool(boolValue))>>)
              [] typeHandler.val.type = Str(tDate) ->
                     LET dateValue == DateOf(rawValue)
                     IN IF dateValue.kind = "NaN" THEN Null
                        ELSE Obj(<<Entry(OperatorOr(typeHandler, kEquals), dateValue)>>)
              [] typeHandler.val.type = Str(tString) ->
                     Obj(<<Entry(OperatorOr(typeHandler, kContains), rawValue)>>)
              [] OTHER -> Obj(<<Entry(kEquals, rawValue)>>)

\* if (processedValue !== null): transformed[relation][actualField], or
\* transformed[actualField] without a relation, is set to processedValue.  No
\* two keys of one condition are mapped to the same relation in the inputs,
\* so transformed[relation], where it is set, is an object.
AssignProcessed(transformed, relation, actualField, processedValue) ==
    IF processedValue.kind = "null" THEN transformed
    ELSE IF Truthy(relation)
    THEN LET held == Get(Obj(transformed), relation.val)
         IN Assign(transformed, relation.val,
                   Obj(Assign(IF Truthy(held) THEN held.val ELSE <<>>,
                              actualField, processedValue)))
    ELSE Assign(transformed, actualField, processedValue)

\* if (result !== null) transformed[relation] = result
AssignResult(transformed, relation, result) ==
    IF result.kind = "null" THEN transformed
    ELSE Assign(transformed, relation.val, result)

\* one turn of the loop of transformCondition: transformed after the entry e
TransformEntry(transformed, e, config) ==
    IF IsNullish(e.val) THEN transformed
    ELSE LET key == e.key
             value == e.val
             relation == Get(config.val.fieldMappings, key)
             renamed == Get(OrEmpty(config.val.fieldNameMappings), key)
             actualField == IF Truthy(renamed) THEN renamed.val ELSE key
             typeHandler == Get(OrEmpty(config.val.fieldTypeHandlers), key)
             relationHandler == Get(OrEmpty(config.val.relationHandlers), key)
         IN IF /\ Truthy(relation)
               /\ Truthy(relationHandler)
               /\ Truthy(relationHandler.val.customHandler)
            THEN AssignResult(transformed, relation,
                              Call(relationHandler.val.customHandler,
                                   <<value, Str(actualField)>>))
            ELSE AssignProcessed(transformed, relation, actualField,
                                 processFieldValue(value, typeHandler))

RECURSIVE TransformEntries(_, _, _)
TransformEntries(entries, config, transformed) ==
    IF Len(entries) = 0 THEN transformed
    ELSE TransformEntries(Tail(entries), config,
                          TransformEntry(transformed, Head(entries), config))

transformCondition(condition, config) ==
    Obj(TransformEntries(condition.val, config, <<>>))

\* condition && Object.keys(condition).length > 0
HasKeys(condition) == Truthy(condition) /\ Len(condition.val) > 0

\* conditions.map(transformCondition)
TransformedConditions(conditions, config) ==
    [i \in 1..Len(conditions) |-> transformCondition(conditions[i], config)]

\* validORConditions.length > 0 ? {OR: validORConditions} : null
OrOfValid(validORConditions) ==
    IF Len(validORConditions) > 0
    THEN Obj(<<Entry(kOR, Arr(validORConditions))>>)
    ELSE Null

\* the callback of whereConditions.AND.map
TransformedANDCondition(condition, config) ==
    IF Truthy(Get(condition, kOR)) /\ IsArray(Get(condition, kOR))
    THEN OrOfValid(SelectSeq(TransformedConditions(Get(condition, kOR).val, config),
                             HasKeys))
    ELSE transformCondition(condition, config)

\* transformed.length > 0 ? {...whereConditions, [key]: transformed} : {}
SpreadWith(whereConditions, key, transformed) ==
    IF Len(transformed) > 0
    THEN Obj(Assign(whereConditions.val, key, Arr(transformed)))
    ELSE Obj(<<>>)

\* transformWhereClause without its three filters
transformWhereClauseUnfiltered(whereConditions, config) ==
    LET AND == Get(whereConditions, kAND)
        OR == Get(whereConditions, kOR)
    IN IF Truthy(AND) /\ IsArray(AND)
       THEN Obj(Assign(whereConditions.val, kAND,
                Arr([i \in 1..Len(AND.val) |->
                       IF Truthy(Get(AND.val[i], kOR)) /\ IsArray(Get(AND.val[i], kOR))
                       THEN Obj(<<Entry(kOR,
                                  Arr(TransformedConditions(Get(AND.val[i], kOR).val,
                                                            config)))>>)
                       ELSE transformCondition(AND.val[i], config)])))
       ELSE IF Truthy(OR) /\ IsArray(OR)
       THEN Obj(Assign(whereConditions.val, kOR,
                       Arr(TransformedConditions(OR.val, config))))
       ELSE transformCondition(whereConditions, config)

transformWhereClause(whereConditions, config) ==
    IF ~Truthy(whereConditions) THEN whereConditions
    ELSE IF Truthy(Get(whereConditions, kAND)) /\ IsArray(Get(whereConditions, kAND))
    THEN SpreadWith(whereConditions, kAND,
                    SelectSeq([i \in 1..Len(Get(whereConditions, kAND).val) |->
                                  TransformedANDCondition(
                                      Get(whereConditions, kAND).val[i], config)],
                              HasKeys))
    ELSE IF Truthy(Get(whereConditions, kOR)) /\ IsArray(Get(whereConditions, kOR))
    THEN SpreadWith(whereConditions, kOR,
                    SelectSeq(TransformedConditions(Get(whereConditions, kOR).val,
                                                    config),
                              HasKeys))
    ELSE transformCondition(whereConditions, config)

transformOrderBy(orderBy, config) ==
    IF ~Truthy(orderBy) \/ Len(orderBy.val) = 0 THEN orderBy
    ELSE LET field == orderBy.val[1].key
             direction == orderBy.val[1].val
             relation == Get(config.val.fieldMappings, field)
             renamed == Get(OrEmpty(config.val.fieldNameMappings), field)
             actualField == IF Truthy(renamed) THEN renamed.val ELSE field
             relationHandler == Get(OrEmpty(config.val.relationHandlers), field)
         IN IF Truthy(relation)
            THEN IF Truthy(relationHandler) /\ Truthy(relationHandler.val.customHandler)
                 THEN Call(relationHandler.val.customHandler,
                           <<direction, Str(actualField)>>)
                 ELSE LET nestedField ==
                              IF Truthy(relationHandler)
                                 /\ Truthy(relationHandler.val.nestedField)
                              THEN relationHandler.val.nestedField.val
                              ELSE actualField
                      IN Obj(<<Entry(relation.val,
                                     Obj(<<Entry(nestedField, direction)>>))>>)
            ELSE IF actualField # field
            THEN Obj(<<Entry(actualField, direction)>>)
            ELSE orderBy

-----------------------------------------------------------------------------
(* The requests and specifications the functions are applied to *)

\* entries of one collection, array elements, and the largest page, rows and
\* maxPageSize
MaxEntries == 2
MaxArr == 2
MaxNum == 3

fA == <<"a">>
fRX == <<"r", ".", "x">>
fDotX == <<".", "x">>
fRXY == <<"r", ".", "x", ".", "y">>
FieldKeys == {fA, fRX, fDotX, fRXY}

sS == Str(<<"s">>)
Elem(i) == IF i % 2 = 1 THEN sS ELSE Num(7)
ArrayValues == {Arr([i \in 1..n |-> Elem(i)]) : n \in 0..MaxArr}
FilterValues == {Null, sS, Num(7)} \cup ArrayValues
SearchValues == {Null, sS}

dEarly == 
    <<"2", "0", "2", "3", "-", "0", "1", "-", "0", "1", "T", "0", "0", ":", "0", "0", ":", "0", "0", "Z">>
dLate == 
    <<"2", "0", "2", "3", "-", "1", "2", "-", "3", "1", "T", "0", "0", ":", "0", "0", ":", "0", "0", "Z">>
dFraction == 
    <<"2", "0", "2", "3", "-", "0", "1", "-", "0", "1", "T", "0", "0", ":", "0", "0", ":", "0", "0", ".", "5", "0", "0", "Z">>
dMonth13 == 
    <<"2", "0", "2", "3", "-", "1", "3", "-", "0", "1", "T", "0", "0", ":", "0", "0", ":", "0", "0", "Z">>
plainEarly == 
    <<"2", "0", "2", "3", "-", "0", "1", "-", "0", "1">>
plainLate == 
    <<"2", "0", "2", "3", "-", "1", "2", "-", "3", "1">>
RangeBounds ==
    {Num(100), Str(dEarly), Str(dLate), Str(dFraction), Str(dMonth13),
     Str(plainEarly), Str(plainLate)}

Range(k, s, e) == [key |-> Str(k), start |-> s, end |-> e]

\* objects of at most n entries with distinct keys, in every order
ObjectsOf(keys, values, n) ==
    UNION {{Obj(es) : es \in {t \in [1..k -> {Entry(f, v) : f \in keys, v \in values}] :
                                \A i, j \in 1..k : i # j => t[i].key # t[j].key}}
           : k \in 0..n}

ArraysOf(items, n) == UNION {{Arr(a) : a \in [1..k -> items]} : k \in 0..n}

KeyRanges ==
    {Range(k, Num(10), Num(100)) : k \in FieldKeys}
    \cup {Range(fA, Str(dLate), Str(dEarly))}

DateRanges == {Range(fA, s, e) : s, e \in RangeBounds}

Numbers == {Undef} \cup {Num(n) : n \in (-1)..MaxNum}

OrderKeys == {Undef, Str(<<>>)} \cup {Str(k) : k \in FieldKeys}

\* requests that populate one part richly, and requests that populate every
\* part at once from a few values each
RequestsWith(filterValues) ==
    {Request(f, Undef, Undef, Undef, Undef, Undef, Undef) :
        f \in {Undef} \cup ObjectsOf(FieldKeys, filterValues, MaxEntries)}
    \cup {Request(Undef, s, Undef, Undef, Undef, Undef, Undef) :
        s \in ObjectsOf(FieldKeys, SearchValues, MaxEntries)}
    \cup {Request(Undef, Undef, r, Undef, Undef, Undef, Undef) :
        r \in ArraysOf(KeyRanges, MaxEntries) \cup {Arr(<<d>>) : d \in DateRanges}}
    \cup {Request(Undef, Undef, Undef, ok, orule, p, rw) :
        ok \in OrderKeys, orule \in {Undef, Str(sDesc)},
        p \in Numbers, rw \in Numbers}
    \cup {Request(f, s, r, ok, Undef, p, rw) :
        f \in {Undef, Obj(<<Entry(fRX, sS)>>), Obj(<<Entry(fA, Arr(<<sS>>)), Entry(fRXY, Null)>>)},
        s \in {Undef, Obj(<<Entry(fA, sS)>>), Obj(<<Entry(fDotX, sS), Entry(fRXY, sS)>>)},
        r \in {Undef, Arr(<<Range(fRX, Num(10), Num(100))>>),
               Arr(<<Range(fA, Str(dLate), Str(dEarly))>>)},
        ok \in {Undef, Str(fRX)},
        p \in {Undef, Num(0), Num(2)},
        rw \in {Undef, Num(0), Num(MaxNum)}}

Requests == RequestsWith(FilterValues)

ValidatedRequests == RequestsWith({Null, sS})

Specification(af, ff, ar, mps) ==
    [kind |-> "object",
     val |-> [allowedFields |-> af, forbiddenFields |-> ff,
              allowedRelations |-> ar, maxPageSize |-> mps]]

Specifications ==
    {Specification(af, ff, ar, mps) :
        af \in {Undef, Arr(<<Str(fRX)>>)},
        ff \in {Undef, Arr(<<Str(fA), Str(fRX)>>)},
        ar \in {Undef, Arr(<<>>), Arr(<<Str(<<"r">>)>>)},
        mps \in {Undef} \cup {Num(n) : n \in 1..MaxNum}}

-----------------------------------------------------------------------------
(* utils/queryExtractor.ts *)

\* the outcome of reading one JSON value: whether it was read, the value, and
\* the place after it
Failed == [ok |-> FALSE, val |-> Undef, next |-> 0]
Parsed(v, n) == [ok |-> TRUE, val |-> v, next |-> n]

StartsWith(s, i, word) ==
    i + Len(word) - 1 <= Len(s) /\ SubSeq(s, i, i + Len(word) - 1) = word

\* the place after the digits that start at i
RECURSIVE DigitsEnd(_, _)
DigitsEnd(s, i) == IF i <= Len(s) /\ s[i] \in Digits THEN DigitsEnd(s, i + 1) ELSE i

\* the place of the first double quote from i on, 0 when there is none
RECURSIVE QuoteFrom(_, _)
QuoteFrom(s, i) ==
    IF i > Len(s) THEN 0
    ELSE IF s[i] = "\"" THEN i
    ELSE QuoteFrom(s, i + 1)

ParseString(s, i) ==
    LET j == QuoteFrom(s, i + 1)
    IN IF j = 0 THEN Failed ELSE Parsed(Str(SubSeq(s, i + 1, j - 1)), j + 1)

ParseNumber(s, i) ==
    LET negative == s[i] = "-"
        from == IF negative THEN i + 1 ELSE i
        end == DigitsEnd(s, from)
        to == IF end > from /\ s[from] = "0" THEN from + 1 ELSE end
    IN IF to = from THEN Failed
       ELSE Parsed(Num(IF negative THEN 0 - DigitsValue(s, from, to - 1)
                       ELSE DigitsValue(s, from, to - 1)), to)

\* JSON.parse, one value from place i on.  The texts read are JSON without
\* blanks between tokens, strings without escapes, numbers without fraction
\* or exponent, and objects whose keys are not array indices; other texts are
\* not among the inputs.
RECURSIVE ParseValue(_, _), ParseElements(_, _, _), ParseMembers(_, _, _)
ParseValue(s, i) ==
    IF i > Len(s) THEN Failed
    ELSE CASE StartsWith(s, i, <<"n", "u", "l", "l">>) -> Parsed(Null, i + 4)
           [] StartsWith(s, i, <<"t", "r", "u", "e">>) -> Parsed(Bool(TRUE), i + 4)
           [] StartsWith(s, i, <<"f", "a", "l", "s", "e">>) -> Parsed(Bool(FALSE), i + 5)
           [] s[i] = "\"" -> ParseString(s, i)
           [] s[i] = "-" \/ s[i] \in Digits -> ParseNumber(s, i)
           [] s[i] = "[" ->
                  IF i + 1 <= Len(s) /\ s[i + 1] = "]" THEN Parsed(Arr(<<>>), i + 2)
                  ELSE ParseElements(s, i + 1, <<>>)
           [] s[i] = "{" ->
                  IF i + 1 <= Len(s) /\ s[i + 1] = "}" THEN Parsed(Obj(<<>>), i + 2)
                  ELSE ParseMembers(s, i + 1, <<>>)
           [] OTHER -> Failed

ParseElements(s, i, done) ==
    LET e == ParseValue(s, i)
    IN IF ~e.ok \/ e.next > Len(s) THEN Failed
       ELSE IF s[e.next] = "," THEN ParseElements(s, e.next + 1, Append(done, e.val))
       ELSE IF s[e.next] = "]" THEN Parsed(Arr(Append(done, e.val)), e.next + 1)
       ELSE Failed

ParseMembers(s, i, done) ==
    IF i > Len(s) \/ s[i] # "\"" THEN Failed
    ELSE LET k == ParseString(s, i)
         IN IF ~k.ok \/ k.next > Len(s) \/ s[k.next] # ":" THEN Failed
            ELSE LET v == ParseValue(s, k.next + 1)
                 IN IF ~v.ok \/ v.next > Len(s) THEN Failed
                    ELSE IF s[v.next] = ","
                    THEN ParseMembers(s, v.next + 1, Assign(done, k.val.val, v.val))
                    ELSE IF s[v.next] = "}"
                    THEN Parsed(Obj(Assign(done, k.val.val, v.val)), v.next + 1)
                    ELSE Failed

\* JSON.parse(s): Failed stands for the SyntaxError
JSONParse(s) ==
    LET r == ParseValue(s, 1)
    IN IF r.ok /\ r.next = Len(s) + 1 THEN r ELSE Failed

\* parseInt(v, 10): leading blanks skipped, an optional sign, then the longest
\* run of digits; NaN when there is none.  undefined is read as the string
\* 'undefined'.
parseInt(v) ==
    IF v.kind # "string" THEN NaN
    ELSE LET t == TrimStart(v.val)
             signed == Len(t) > 0 /\ t[1] \in {"+", "-"}
             body == IF signed THEN Tail(t) ELSE t
             end == DigitsEnd(body, 1)
         IN IF end = 1 THEN NaN
            ELSE IF signed /\ t[1] = "-" THEN Num(0 - DigitsValue(body, 1, end - 1))
            ELSE Num(DigitsValue(body, 1, end - 1))

\* Array.isArray(p) ? p[0] : p
FirstOf(p) ==
    IF IsArray(p) THEN IF Len(p.val) > 0 THEN p.val[1] ELSE Undef
    ELSE p

\* one of the three try blocks: what the property of the request is left as.
\* A property never assigned and one assigned undefined are both Undef.
JsonParameter(p) ==
    IF ~Truthy(p) THEN Undef
    ELSE LET v == FirstOf(p)
         IN IF v.kind = "string"
            THEN IF JSONParse(v.val).ok THEN JSONParse(v.val).val ELSE Undef
            ELSE v

StringParameter(p) == IF Truthy(p) THEN FirstOf(p) ELSE Undef

NumberParameter(p) == IF Truthy(p) THEN parseInt(FirstOf(p)) ELSE Undef

\* extractQueryFromParams with one try around the three JSON blocks and what
\* follows: the first SyntaxError ends the extraction
extractQueryFromParamsAborting(params) ==
    LET ok(p) == JsonParameter(p) # Undef \/ ~Truthy(p) \/ FirstOf(p).kind # "string"
        ok1 == ok(params.filters)
        ok2 == ok1 /\ ok(params.searchFilters)
        ok3 == ok2 /\ ok(params.rangedFilters)
    IN Request(JsonParameter(params.filters),
               IF ok1 THEN JsonParameter(params.searchFilters) ELSE Undef,
               IF ok2 THEN JsonParameter(params.rangedFilters) ELSE Undef,
               IF ok3 THEN StringParameter(params.orderKey) ELSE Undef,
               IF ok3 THEN StringParameter(params.orderRule) ELSE Undef,
               IF ok3 THEN NumberParameter(params.page) ELSE Undef,
               IF ok3 THEN NumberParameter(params.rows) ELSE Undef)

extractQueryFromParams(params) ==
    Request(JsonParameter(params.filters),
            JsonParameter(params.searchFilters),
            JsonParameter(params.rangedFilters),
            StringParameter(params.orderKey),
            StringParameter(params.orderRule),
            NumberParameter(params.page),
            NumberParameter(params.rows))

-----------------------------------------------------------------------------
(* index.ts: the BuildQueryFilter class *)

\* the fields of an instance
constructor(spec, config) == [specification |-> spec, transformConfig |-> config]

\* query after the two if (this.transformConfig && ...) of build and
\* buildWithoutValidation
Transformed(compiled, config) ==
    [compiled EXCEPT
        !.where = IF Truthy(config) /\ Truthy(compiled.where)
                  THEN transformWhereClause(compiled.where, config)
                  ELSE compiled.where,
        !.orderBy = IF Truthy(config) /\ Truthy(compiled.orderBy)
                    THEN transformOrderBy(compiled.orderBy, config)
                    ELSE compiled.orderBy]

\* build keeping the query back when the request is not valid
buildWithholding(this, f) ==
    IF buildFilterQueryRaises(f) THEN Thrown
    ELSE LET result == validateQuery(f, this.specification)
         IN [query |-> IF result.isValid
                       THEN Transformed(buildFilterQuery(RangesRead(f)),
                                        this.transformConfig)
                       ELSE Undef,
             validation |-> result]

\* build(filter): Thrown when buildFilterQuery raises.  Whenever
\* validateQuery would raise, on the same for...of and range.key.includes,
\* buildFilterQuery raises as well.
build(this, f) ==
    IF buildFilterQueryRaises(f) THEN Thrown
    ELSE [query |-> Transformed(buildFilterQuery(RangesRead(f)), this.transformConfig),
          validation |-> validateQuery(f, this.specification)]

buildWithoutValidation(this, f) ==
    IF buildFilterQueryRaises(f) THEN Thrown
    ELSE Transformed(buildFilterQuery(RangesRead(f)), this.transformConfig)

validate(this, f) == validateQuery(f, this.specification)

\* setSpecification forgetting the transform configuration
setSpecificationResetting(this, spec) ==
    [specification |-> spec, transformConfig |-> Undef]

\* the instance after setSpecification(spec)
setSpecification(this, spec) == [this EXCEPT !.specification = spec]

\* the instance after setTransformConfig(config)
setTransformConfig(this, config) == [this EXCEPT !.transformConfig = config]

\* the inputs of the transformer: a compiled request, or a where tree given
\* directly, with the configuration it is transformed under
fR == <<"r">>
fB == <<"b">>
fN == <<"n">>
relRel == <<"r", "e", "l">>
relOther == <<"o", "t", "h", "e", "r">>
s7 == Str(<<"7">>)
sTrue == Str(kTrue)
sTRUE == Str(<<"T", "R", "U", "E">>)
sFalse == Str(<<"f", "a", "l", "s", "e">>)
sBlank7 == Str(<<" ", "7", " ">>)
sMinus7 == Str(<<"-", "7">>)
sEmpty == Str(<<>>)

OnlyFilters(f) == Request(f, Undef, Undef, Undef, Undef, Undef, Undef)
OnlySearch(sf) == Request(Undef, sf, Undef, Undef, Undef, Undef, Undef)
OnlyRanges(r) == Request(Undef, Undef, r, Undef, Undef, Undef, Undef)
OnlyOrder(ok, orule) == Request(Undef, Undef, Undef, ok, orule, Undef, Undef)

EmptyConfig == TransformConfig(Obj(<<>>), Undef, Undef, Undef)
EmptyConfigs ==
    {EmptyConfig, TransformConfig(Obj(<<>>), Obj(<<>>), Obj(<<>>), Obj(<<>>))}

MappingsOfA == {Obj(<<>>), Obj(<<Entry(fA, Str(relRel))>>)}
NamesOfA == {Undef, Obj(<<Entry(fA, Str(fB))>>)}

TypedValues ==
    {Null, sS, s7, sBlank7, sMinus7, sEmpty, sTrue, sTRUE, sFalse, Num(7), Num(0),
     Arr(<<>>), Arr(<<sS>>), Arr(<<sTrue, Num(0)>>)}

TypedRequests ==
    {OnlyFilters(Obj(<<Entry(fA, v)>>)) : v \in TypedValues}
    \cup {OnlyFilters(Obj(<<Entry(fA, v), Entry(fRX, s7)>>)) : v \in {sS, s7}}
    \cup {OnlySearch(Obj(<<Entry(fA, v)>>)) : v \in {sS, s7, sTRUE, Num(7)}}
    \cup {OnlySearch(Obj(<<Entry(fA, sS), Entry(fRX, sS)>>))}
    \cup {OnlyRanges(Arr(<<Range(fA, b, Num(100))>>)) : b \in {Num(10), s7, sS, Null}}

TypeHandlers ==
    {FieldTypeHandler(Str(t), op, Undef) :
        t \in {tNumber, tBoolean, tString, tCustom}, op \in {Undef, Str(kGte)}}
    \cup {FieldTypeHandler(Str(t), Undef, Fn(h)) :
            t \in {tCustom, tNumber}, h \in {"is", "null"}}

TypedConfigs ==
    {TransformConfig(fm, fnm, Obj(<<Entry(fA, h)>>), Undef) :
        fm \in MappingsOfA, fnm \in NamesOfA, h \in TypeHandlers}

DatedRequests ==
    {OnlyFilters(Obj(<<Entry(fA, v)>>)) :
        v \in {Str(dEarly), Str(dFraction), Str(plainEarly), Str(dMonth13), sS,
               Num(7), Arr(<<Str(dEarly), sS>>)}}
    \cup {OnlyRanges(Arr(<<Range(fA, Str(dEarly), Str(dLate))>>))}

DatedConfigs ==
    {TransformConfig(Obj(<<>>), Undef,
                     Obj(<<Entry(fA, FieldTypeHandler(Str(tDate), op, Undef))>>), Undef) :
        op \in {Undef, Str(kGte)}}

RelatedRequests ==
    {OnlyFilters(Obj(<<Entry(fA, v)>>)) : v \in {sS, Num(7), Arr(<<sS, Num(7)>>)}}
    \cup {OnlyFilters(Obj(<<Entry(fRX, sS)>>)),
          OnlyFilters(Obj(<<Entry(fA, sS), Entry(fRX, sS)>>)),
          OnlySearch(Obj(<<Entry(fA, sS)>>)),
          OnlySearch(Obj(<<Entry(fA, sS), Entry(fRX, sS)>>)),
          OnlyRanges(Arr(<<Range(fA, Num(10), Num(100))>>))}
    \cup {OnlyOrder(Str(k), orule) : k \in {fA, fRX, fB}, orule \in {Undef, Str(sDesc)}}

RelationHandlers ==
    {Undef}
    \cup {RelationHandler(Str(<<"o", "n", "e", "-", "t", "o", "-", "m", "a", "n", "y">>), Str(kSome), nf, h) :
            nf \in {Undef, Str(fN)},
            h \in {Undef, Fn("some"), Fn("null"), Fn("undefined")}}

RelatedConfigs ==
    {TransformConfig(fm, fnm, fth,
                     IF rh = Undef THEN Undef ELSE Obj(<<Entry(fA, rh)>>)) :
        fm \in {Obj(<<Entry(fA, Str(relRel))>>),
                Obj(<<Entry(fA, Str(relRel)), Entry(fR, Str(relOther))>>)},
        fnm \in NamesOfA,
        fth \in {Undef, Obj(<<Entry(fA, FieldTypeHandler(Str(tNumber), Undef, Undef))>>)},
        rh \in RelationHandlers}

\* where trees that are not under AND: a top-level OR, one plain condition,
\* and no tree at all
OtherWheres ==
    {Obj(<<Entry(kOR, Arr(a))>>) :
        a \in {<<>>, <<Obj(<<Entry(fA, sS)>>)>>,
               <<Obj(<<Entry(fA, sS)>>), Obj(<<Entry(fA, s7)>>)>>}}
    \cup {Obj(<<>>), Obj(<<Entry(fA, sS)>>), Obj(<<Entry(fA, s7), Entry(fB, Null)>>),
          Obj(<<Entry(fA, sS), Entry(fR, Obj(<<Entry(<<"x">>, Num(7))>>))>>),
          Null}

OtherConfigs ==
    {EmptyConfig,
     TransformConfig(Obj(<<>>), Undef,
                     Obj(<<Entry(fA, FieldTypeHandler(Str(tNumber), Undef, Undef))>>),
                     Undef),
     TransformConfig(Obj(<<Entry(fA, Str(relRel))>>), Undef, Undef,
                     Obj(<<Entry(fA, RelationHandler(Str(<<"o", "n", "e", "-", "t", "o", "-", "m", "a", "n", "y">>), Str(kSome),
                                                      Undef, Fn("null")))>>))}

QueryOf(where) ==
    [where |-> where, orderBy |-> Obj(<<>>), take |-> Num(DefaultTake), skip |-> Num(0)]

TransformInput(f, q, c) == [filter |-> f, query |-> q, config |-> c]

TransformInputs ==
    {TransformInput(f, buildFilterQuery(f), c) : f \in Requests, c \in EmptyConfigs}
    \cup {TransformInput(f, buildFilterQuery(f), c) :
            f \in TypedRequests, c \in TypedConfigs}
    \cup {TransformInput(f, buildFilterQuery(f), c) :
            f \in DatedRequests, c \in DatedConfigs}
    \cup {TransformInput(f, buildFilterQuery(f), c) :
            f \in RelatedRequests, c \in RelatedConfigs}
    \cup {TransformInput(Undef, QueryOf(w), c) : w \in OtherWheres, c \in OtherConfigs}

\* the requests, specifications and configurations a BuildQueryFilter is
\* called and set with, and the number of calls made on one instance
MaxCalls == 3

FacadeRequests ==
    {Request(Undef, Undef, Undef, Undef, Undef, Undef, Undef),
     Request(Obj(<<Entry(fA, s7)>>), Undef, Undef, Undef, Undef, Num(0), Undef),
     Request(Obj(<<Entry(fA, Arr(<<sS, Num(7)>>))>>), Obj(<<Entry(fRX, sS)>>),
             Arr(<<Range(fA, Str(dLate), Str(dEarly))>>), Str(fA), Str(sDesc),
             Num(2), Num(MaxNum)),
     Request(Undef, Obj(<<Entry(fA, sS), Entry(fRX, sS)>>), Undef, Str(fRX), Undef,
             Undef, Num(1))}

StrictSpecification ==
    Specification(Arr(<<Str(fRX)>>), Arr(<<Str(fA), Str(fRX)>>), Arr(<<>>), Num(1))
LaxSpecification == Specification(Undef, Undef, Arr(<<Str(fR)>>), Undef)

MappingConfig ==
    TransformConfig(Obj(<<Entry(fA, Str(relRel))>>), Obj(<<Entry(fA, Str(fB))>>),
                    Obj(<<Entry(fA, FieldTypeHandler(Str(tNumber), Undef, Undef))>>),
                    Obj(<<Entry(fA, RelationHandler(Str(<<"o">>), Str(kSome),
                                                     Str(fN), Undef))>>))

\* the parameter mappings the extractor is given: JSON texts that decode and
\* texts that do not, alone and with other parameters
jObject ==
    <<"{", "\"", "a", "\"", ":", "\"", "s", "\"", "}">>
jNested ==
    <<"{", "\"", "a", "\"", ":", "{", "\"", "b", "\"", ":", "7", "}", ",", "\"", "r", ".", "x", "\"", ":", "n", "u", "l", "l", "}">>
jArrayValue ==
    <<"{", "\"", "a", "\"", ":", "[", "\"", "s", "\"", ",", "7", "]", "}">>
jNull ==
    <<"n", "u", "l", "l">>
jNumber ==
    <<"5">>
jZero ==
    <<"0">>
jString ==
    <<"\"", "s", "\"">>
jTrue ==
    <<"t", "r", "u", "e">>
jEmptyArray ==
    <<"[", "]">>
jRanges ==
    <<"[", "{", "\"", "k", "e", "y", "\"", ":", "\"", "a", "\"", ",", "\"", "s", "t", "a", "r", "t", "\"", ":", "1", ",", "\"", "e", "n", "d", "\"", ":", "2", "}", "]">>
jRangesNoKey ==
    <<"[", "{", "\"", "s", "t", "a", "r", "t", "\"", ":", "1", ",", "\"", "e", "n", "d", "\"", ":", "2", "}", "]">>
jRangesNull ==
    <<"[", "n", "u", "l", "l", "]">>
jKeyed ==
    <<"{", "\"", "k", "e", "y", "\"", ":", "\"", "a", "\"", "}">>
jBadKey ==
    <<"{", "a", ":", "1", "}">>
jBadEnd ==
    <<"{", "\"", "a", "\"", ":">>
jBadComma ==
    <<"[", "1", ",", "]">>
jBadWord ==
    <<"s">>

DecodableTexts ==
    {jObject, jNested, jArrayValue, jNull, jNumber, jZero, jString, jTrue,
     jEmptyArray, jRanges, jRangesNoKey, jRangesNull, jKeyed}
MalformedTexts == {jBadKey, jBadEnd, jBadComma, jBadWord}

QueryParams(f, s, r, ok, orule, p, rw) ==
    [filters |-> f, searchFilters |-> s, rangedFilters |-> r,
     orderKey |-> ok, orderRule |-> orule, page |-> p, rows |-> rw]

JsonParameters ==
    {Undef, Str(<<>>), Arr(<<>>)}
    \cup {Str(t) : t \in DecodableTexts \cup MalformedTexts}
    \cup {Arr(<<Str(jBadKey), Str(jObject)>>), Arr(<<Str(jObject), Str(jBadKey)>>)}

NumberTexts ==
    {Undef, Str(<<>>), Str(<<"2">>), Str(<<"0">>), Str(<<"-", "1">>),
     Str(<<"a", "b", "c">>), Str(<<"2", "x">>), Str(<<" ", "3">>),
     Arr(<<Str(<<"3">>), Str(<<"4">>)>>), Arr(<<>>)}

\* parameter mappings that hold a page and a rows only
PagingParamsGiven ==
    {QueryParams(Undef, Undef, Undef, Undef, Undef, p, rw) :
        p \in NumberTexts, rw \in NumberTexts}

\* a specification that allows every page size of the inputs
WideSpecification == Specification(Undef, Undef, Undef, Num(DefaultTake))

QueryParamsGiven ==
    {QueryParams(j, Undef, Undef, Undef, Undef, Undef, Undef) : j \in JsonParameters}
    \cup {QueryParams(Undef, j, Undef, Undef, Undef, Undef, Undef) : j \in JsonParameters}
    \cup {QueryParams(Undef, Undef, j, Undef, Undef, Undef, Undef) : j \in JsonParameters}
    \cup {QueryParams(f, sf, r, ok, Undef, p, Undef) :
            f \in {Undef, Str(jObject), Str(jBadEnd)},
            sf \in {Undef, Str(jObject), Str(jBadKey)},
            r \in {Undef, Str(jRanges), Str(jBadComma)},
            ok \in {Undef, Str(fA)},
            p \in {Undef, Str(<<"2">>)}}
    \cup {QueryParams(Undef, Undef, Undef, ok, orule, p, rw) :
            ok \in {Undef, Str(<<>>), Str(fRX), Arr(<<Str(fA), Str(fB)>>)},
            orule \in {Undef, Str(sDesc), Arr(<<Str(sAsc)>>)},
            p \in NumberTexts,
            rw \in {Undef, Str(<<"2">>), Str(<<"-", "1">>), Str(<<"a", "b", "c">>)}}

-----------------------------------------------------------------------------
(* The calls *)

\* buildFilterQuery(filter)
BuildFilterQueryCall ==
    /\ query' = buildFilterQuery(filter)
    /\ UNCHANGED <<filter, specification, validation, transformConfig,
                   queryParams, calls>>

\* validateQuery(filter, specification)
ValidateQueryCall ==
    /\ validation' = validateQuery(filter, specification)
    /\ UNCHANGED <<filter, specification, query, transformConfig,
                   queryParams, calls>>

CallOf(name, arg) == [name |-> name, arg |-> arg]

Called(name) == \E i \in 1..Len(calls) : calls[i].name = name

\* transformWhereClause(query.where, transformConfig)
TransformWhereClauseCall ==
    /\ query # Undef
    /\ ~Called("transformWhereClause")
    /\ query' = [query EXCEPT !.where = transformWhereClause(@, transformConfig)]
    /\ calls' = Append(calls, CallOf("transformWhereClause", query.where))
    /\ UNCHANGED <<filter, specification, validation, transformConfig, queryParams>>

\* transformOrderBy(query.orderBy, transformConfig)
TransformOrderByCall ==
    /\ query # Undef
    /\ ~Called("transformOrderBy")
    /\ query' = [query EXCEPT !.orderBy = transformOrderBy(@, transformConfig)]
    /\ calls' = Append(calls, CallOf("transformOrderBy", query.orderBy))
    /\ UNCHANGED <<filter, specification, validation, transformConfig, queryParams>>

\* the instance the methods are called on
This == constructor(specification, transformConfig)

\* the requests a method is called with: any of FacadeRequests, or, where
\* parameters were given, the request extracted from them
RequestsAtHand ==
    IF queryParams = Undef THEN FacadeRequests
    ELSE IF filter = Undef THEN {}
    ELSE {filter}

\* extractQueryFromParams(queryParams)
ExtractQueryFromParamsCall ==
    /\ queryParams # Undef
    /\ filter = Undef
    /\ filter' = extractQueryFromParams(queryParams)
    /\ calls' = Append(calls, CallOf("extractQueryFromParams", queryParams))
    /\ UNCHANGED <<specification, query, validation, transformConfig, queryParams>>

\* build(filter)
BuildCall ==
    /\ Len(calls) <= MaxCalls
    /\ \E f \in RequestsAtHand :
          LET result == build(This, f)
          IN /\ filter' = f
             /\ query' = result.query
             /\ validation' = result.validation
             /\ calls' = Append(calls, CallOf("build", f))
    /\ UNCHANGED <<specification, transformConfig, queryParams>>

\* validate(filter)
ValidateCall ==
    /\ Len(calls) <= MaxCalls
    /\ \E f \in RequestsAtHand :
          /\ filter' = f
          /\ validation' = validate(This, f)
          /\ calls' = Append(calls, CallOf("validate", f))
    /\ query' = Undef
    /\ UNCHANGED <<specification, transformConfig, queryParams>>

\* buildWithoutValidation(filter)
BuildWithoutValidationCall ==
    /\ Len(calls) <= MaxCalls
    /\ \E f \in RequestsAtHand :
          /\ filter' = f
          /\ query' = buildWithoutValidation(This, f)
          /\ calls' = Append(calls, CallOf("buildWithoutValidation", f))
    /\ validation' = Undef
    /\ UNCHANGED <<specification, transformConfig, queryParams>>

\* setSpecification(spec)
SetSpecificationCall ==
    /\ Len(calls) <= MaxCalls
    /\ \E spec \in {StrictSpecification, LaxSpecification} :
          LET that == setSpecification(This, spec)
          IN /\ specification' = that.specification
             /\ transformConfig' = that.transformConfig
             /\ calls' = Append(calls, CallOf("setSpecification", spec))
    /\ query' = Undef
    /\ validation' = Undef
    /\ UNCHANGED <<filter, queryParams>>

\* setTransformConfig(config)
SetTransformConfigCall ==
    /\ Len(calls) <= MaxCalls
    /\ \E config \in {MappingConfig, EmptyConfig} :
          LET that == setTransformConfig(This, config)
          IN /\ specification' = that.specification
             /\ transformConfig' = that.transformConfig
             /\ calls' = Append(calls, CallOf("setTransformConfig", config))
    /\ query' = Undef
    /\ validation' = Undef
    /\ UNCHANGED <<filter, queryParams>>

Init ==
    /\ filter \in Requests
    /\ specification = Undef
    /\ query = Undef
    /\ validation = Undef
    /\ transformConfig = Undef
    /\ queryParams = Undef
    /\ calls = <<>>

Next == BuildFilterQueryCall \/ ValidateQueryCall

Spec == Init /\ [][Next]_vars

\* the validator applied under every specification
InitValidation ==
    /\ filter \in ValidatedRequests
    /\ specification \in Specifications
    /\ query = Undef
    /\ validation = Undef
    /\ transformConfig = Undef
    /\ queryParams = Undef
    /\ calls = <<>>

NextValidation == ValidateQueryCall

SpecValidation == InitValidation /\ [][NextValidation]_vars

\* the transformer applied to a where tree and an order, once each
InitTransform ==
    /\ \E in \in TransformInputs :
          /\ filter = in.filter
          /\ query = in.query
          /\ transformConfig = in.config
    /\ specification = Undef
    /\ validation = Undef
    /\ queryParams = Undef
    /\ calls = <<>>

NextTransform == TransformWhereClauseCall \/ TransformOrderByCall

SpecTransform == InitTransform /\ [][NextTransform]_vars

\* one BuildQueryFilter, constructed and then called and set in any order
InitFacade ==
    /\ specification \in {Undef, StrictSpecification}
    /\ transformConfig \in {Undef, MappingConfig}
    /\ calls = <<CallOf("constructor", <<specification, transformConfig>>)>>
    /\ filter = Undef
    /\ query = Undef
    /\ validation = Undef
    /\ queryParams = Undef

NextFacade ==
    \/ BuildCall
    \/ BuildWithoutValidationCall
    \/ ValidateCall
    \/ SetSpecificationCall
    \/ SetTransformConfigCall

SpecFacade == InitFacade /\ [][NextFacade]_vars

\* a request extracted from raw parameters, then compiled and transformed
InitExtract ==
    /\ queryParams \in QueryParamsGiven
    /\ transformConfig \in {Undef, MappingConfig}
    /\ specification = Undef
    /\ filter = Undef
    /\ query = Undef
    /\ validation = Undef
    /\ calls = <<>>

NextExtract == ExtractQueryFromParamsCall \/ BuildWithoutValidationCall

SpecExtract == InitExtract /\ [][NextExtract]_vars

\* a page and a rows extracted from raw parameters, then validated against
\* the specification of the instance
InitPaging ==
    /\ queryParams \in PagingParamsGiven
    /\ specification \in {StrictSpecification, LaxSpecification, WideSpecification}
    /\ transformConfig = Undef
    /\ filter = Undef
    /\ query = Undef
    /\ validation = Undef
    /\ calls = <<>>

NextPaging == ExtractQueryFromParamsCall \/ ValidateCall \/ BuildCall

SpecPaging == InitPaging /\ [][NextPaging]_vars

-----------------------------------------------------------------------------
(* What the claims speak of *)

Compiled == query # Undef
Validated == validation # Undef

\* query.where.AND
AndOf(q) == q.where.val[1].val.val

\* the entries of a map whose value is not null
LiveEntries(map) == SelectSeq(map.val, LAMBDA e : ~IsNullish(e.val))

LiveFilters == IF Truthy(filter.filters) THEN LiveEntries(filter.filters) ELSE <<>>
LiveSearches ==
    IF Truthy(filter.searchFilters) THEN LiveEntries(filter.searchFilters) ELSE <<>>
Ranges == IF Truthy(filter.rangedFilters) THEN filter.rangedFilters.val ELSE <<>>

\* the part of where.AND between the filter entries and the range entries
SearchPart ==
    SubSeq(AndOf(query), Len(LiveFilters) + 1, Len(AndOf(query)) - Len(Ranges))

\* the text of a dotted key before and after its first dot
FirstDot(k) == CHOOSE i \in 1..Len(k) : k[i] = "." /\ \A j \in 1..(i - 1) : k[j] # "."
BeforeFirstDot(k) == SubSeq(k, 1, FirstDot(k) - 1)
AfterFirstDot(k) == SubSeq(k, FirstDot(k) + 1, Len(k))

IsSingleton(c) == c.kind = "object" /\ Len(c.val) = 1

\* c is the predicate p on field k: {k: p}, or for a dotted k an object
\* {relation: {column: p}} with the relation the text before the first dot
IsPredicateOn(c, k, p) ==
    IF IncludesDot(k)
    THEN /\ IsSingleton(c)
         /\ c.val[1].key = BeforeFirstDot(k)
         /\ IsSingleton(c.val[1].val)
         /\ c.val[1].val.val[1].val = p
    ELSE c = Obj(<<Entry(k, p)>>)

\* c is {OR: [...]} with one predicate P(item) on k per item, in order
IsOrOver(c, k, items, P(_)) ==
    /\ IsSingleton(c)
    /\ c.val[1].key = kOR
    /\ c.val[1].val.kind = "array"
    /\ Len(c.val[1].val.val) = Len(items)
    /\ \A j \in 1..Len(items) : IsPredicateOn(c.val[1].val.val[j], k, P(items[j]))

Same(v) == v
Contains(v) == Obj(<<Entry(kContains, v)>>)

\* C1: the filter entries open where.AND, one per map key with a non-null
\* value in map order: an array of n elements gives {OR: [...]} of n equality
\* predicates in element order, any other value one equality predicate; with
\* no search and no range there is nothing else in where.AND.
C1_FilterEntries ==
    Compiled =>
        /\ Len(AndOf(query)) >= Len(LiveFilters)
        /\ Len(LiveSearches) = 0 /\ Len(Ranges) = 0
              => Len(AndOf(query)) = Len(LiveFilters)
        /\ \A i \in 1..Len(LiveFilters) :
              LET e == LiveFilters[i]
                  c == AndOf(query)[i]
              IN IF IsArray(e.val)
                 THEN IsOrOver(c, e.key, e.val.val, Same)
                 ELSE IsPredicateOn(c, e.key, e.val)

C1_Witness ==
    /\ Compiled
    /\ Truthy(filter.filters)
    /\ Len(filter.filters.val) = 2
    /\ IsNullish(filter.filters.val[1].val)
    /\ IsArray(filter.filters.val[2].val)
    /\ Len(filter.filters.val[2].val.val) = 2
    /\ Len(AndOf(query)) = 1

IsInteger(v) == v.kind = "number"

\* C2 as stated: page and rows count as set whenever they are given, 0 included
C2_Original ==
    Compiled /\ filter.page \in {Undef} \cup {Num(n) : n \in (-1)..MaxNum}
             /\ filter.rows \in {Undef} \cup {Num(n) : n \in (-1)..MaxNum} =>
        /\ filter.page # Undef /\ filter.rows # Undef =>
              /\ query.take = filter.rows
              /\ query.skip = Num((filter.page.val - 1) * filter.rows.val)
        /\ filter.page # Undef /\ filter.rows = Undef =>
              /\ query.take = Num(10)
              /\ query.skip = Num(10 * (filter.page.val - 1))
        /\ filter.page = Undef => query.take = Num(10) /\ query.skip = Num(0)

\* page or rows is given and is not 0
GivenNonZero(v) == IsInteger(v) /\ v.val # 0

\* C2, amended: a page or rows of 0 counts as not set
C2_Pagination ==
    Compiled /\ filter.page \in {Undef} \cup {Num(n) : n \in (-1)..MaxNum}
             /\ filter.rows \in {Undef} \cup {Num(n) : n \in (-1)..MaxNum} =>
        /\ GivenNonZero(filter.page) /\ GivenNonZero(filter.rows) =>
              /\ query.take = filter.rows
              /\ query.skip = Num((filter.page.val - 1) * filter.rows.val)
        /\ GivenNonZero(filter.page) /\ ~GivenNonZero(filter.rows) =>
              /\ query.take = Num(10)
              /\ query.skip = Num(10 * (filter.page.val - 1))
        /\ ~GivenNonZero(filter.page) => query.take = Num(10) /\ query.skip = Num(0)

C2_Witness ==
    /\ Compiled
    /\ filter.page = Num(0)
    /\ filter.rows = Num(2)
    /\ query.take = Num(10)
    /\ query.skip = Num(0)

\* C3 as stated: more than one search field always gives exactly one OR entry
C3_Original ==
    Compiled /\ Truthy(filter.searchFilters) =>
        LET fields == filter.searchFilters.val
            live == LiveSearches
        IN /\ Len(fields) > 1 =>
                 /\ Len(SearchPart) = 1
                 /\ IsSingleton(SearchPart[1])
                 /\ SearchPart[1].val[1].key = kOR
                 /\ Len(SearchPart[1].val[1].val.val) = Len(live)
           /\ Len(fields) = 1 /\ Len(live) = 1 =>
                 /\ Len(SearchPart) = 1
                 /\ IsPredicateOn(SearchPart[1], live[1].key, Contains(live[1].val))

\* C3, amended: with more than one search field, one OR entry holding a
\* contains-predicate per non-null field in map order when some value is not
\* null, and no entry at all when every value is null; with exactly one
\* field, its contains-predicate directly.
C3_SearchEntries ==
    Compiled /\ Truthy(filter.searchFilters) =>
        LET fields == filter.searchFilters.val
            live == LiveSearches
        IN /\ Len(fields) > 1 /\ Len(live) > 0 =>
                 /\ Len(SearchPart) = 1
                 /\ IsSingleton(SearchPart[1])
                 /\ SearchPart[1].val[1].key = kOR
                 /\ Len(SearchPart[1].val[1].val.val) = Len(live)
                 /\ \A j \in 1..Len(live) :
                       IsPredicateOn(SearchPart[1].val[1].val.val[j], live[j].key,
                                     Contains(live[j].val))
           /\ Len(live) = 0 => Len(SearchPart) = 0
           /\ Len(fields) = 1 /\ Len(live) = 1 =>
                 /\ Len(SearchPart) = 1
                 /\ IsPredicateOn(SearchPart[1], live[1].key, Contains(live[1].val))

C3_Witness ==
    /\ Compiled
    /\ Truthy(filter.searchFilters)
    /\ Len(filter.searchFilters.val) = 2
    /\ Len(LiveSearches) = 0
    /\ AndOf(query) = <<>>

\* C4: the range entries close where.AND, one per ranged filter in input
\* order, each {gte: start, lte: end} of its entry under the entry's field
\* (nested under the relation when the key is dotted); with no filter and no
\* search there is nothing else in where.AND.
C4_RangeEntries ==
    Compiled =>
        LET and == AndOf(query)
            off == Len(and) - Len(Ranges)
        IN /\ off >= 0
           /\ Len(LiveFilters) = 0 /\ Len(LiveSearches) = 0 => off = 0
           /\ \A i \in 1..Len(Ranges) :
                 IsPredicateOn(and[off + i], Ranges[i].key.val,
                               Obj(<<Entry(kGte, Ranges[i].start),
                                     Entry(kLte, Ranges[i].end)>>))

C4_Witness ==
    /\ Compiled
    /\ Len(Ranges) = 2
    /\ Ranges[1].key = Str(fRX)
    /\ Ranges[2].key = Str(fA)
    /\ Ranges[2].start = Str(dLate)
    /\ Len(AndOf(query)) = 2

\* C5: a dotted filter, search or range key is split at its first dot only:
\* the predicate is {relation: {column: ...}} with the relation the text
\* before the first dot and the column all the text after it.
C5_SplitAtFirstDot ==
    Compiled =>
        LET and == AndOf(query)
            Scoped(k, p) ==
                Obj(<<Entry(BeforeFirstDot(k), Obj(<<Entry(AfterFirstDot(k), p)>>))>>)
        IN /\ \A i \in 1..Len(LiveFilters) :
                 LET e == LiveFilters[i]
                 IN IncludesDot(e.key) /\ ~IsArray(e.val) => and[i] = Scoped(e.key, e.val)
           /\ Len(LiveSearches) = 1 /\ IncludesDot(LiveSearches[1].key)
                 /\ Len(filter.searchFilters.val) = 1 =>
                 SearchPart[1] = Scoped(LiveSearches[1].key, Contains(LiveSearches[1].val))
           /\ \A i \in 1..Len(Ranges) :
                 IncludesDot(Ranges[i].key.val) =>
                     and[Len(and) - Len(Ranges) + i]
                       = Scoped(Ranges[i].key.val,
                                Obj(<<Entry(kGte, Ranges[i].start),
                                      Entry(kLte, Ranges[i].end)>>))

HasSpecification == Truthy(specification)

ErrorsWith(texts) == SelectSeq(validation.errors, LAMBDA m : m.text \in texts)

Listed(list, k) == list # Undef /\ \E i \in 1..Len(list.val) : list.val[i] = Str(k)

Keys(entries) == [i \in 1..Len(entries) |-> entries[i].key]
RangeKeys == [i \in 1..Len(Ranges) |-> Ranges[i].key.val]
OrderKeyPath == IF Truthy(filter.orderKey) THEN <<filter.orderKey.val>> ELSE <<>>

\* C6: one filter on a plain field b and nothing else in the request: with
\* allowedFields given and not holding b, one warning naming b and no error;
\* with forbiddenFields holding b and allowedFields not given, one error and
\* no warning.
C6_AllowedAndForbidden ==
    /\ Validated /\ HasSpecification
    /\ Len(LiveFilters) = 1 /\ Len(filter.filters.val) = 1
    /\ ~IncludesDot(LiveFilters[1].key)
    /\ filter.page = Undef /\ filter.rows = Undef
    =>
    LET b == LiveFilters[1].key
        af == specification.val.allowedFields
        ff == specification.val.forbiddenFields
    IN /\ af # Undef /\ ~Listed(af, b) /\ ff = Undef =>
             /\ Len(validation.warnings) = 1
             /\ validation.warnings[1].args = <<Str(b)>>
             /\ validation.errors = <<>>
       /\ af = Undef /\ Listed(ff, b) =>
             /\ Len(validation.errors) = 1
             /\ validation.warnings = <<>>

\* C7: the same field rule for filter, search, range and order keys: a field
\* path absent from allowedFields gives a warning naming it, unless
\* forbiddenFields lists it, and then an error naming it and no warning.
C7_SameFieldRule ==
    Validated /\ HasSpecification =>
        LET af == specification.val.allowedFields
            ff == specification.val.forbiddenFields
            paths == Keys(LiveFilters) \o Keys(LiveSearches) \o RangeKeys \o OrderKeyPath
            Names(ms, k) == \E i \in 1..Len(ms) : ms[i].args = <<Str(k)>>
        IN \A i \in 1..Len(paths) :
              af # Undef /\ ~Listed(af, paths[i]) =>
                  IF Listed(ff, paths[i])
                  THEN Names(validation.errors, paths[i])
                       /\ ~Names(validation.warnings, paths[i])
                  ELSE Names(validation.warnings, paths[i])

RelationTexts ==
    {"Relation '%' is not allowed", "Search relation '%' is not allowed",
     "Range relation '%' is not allowed", "Order relation '%' is not allowed"}

\* the dotted field paths of the request, in the order they are validated
DottedPaths ==
    SelectSeq(Keys(LiveFilters) \o Keys(LiveSearches) \o RangeKeys \o OrderKeyPath,
              IncludesDot)

RelationOf(errors) == [i \in 1..Len(errors) |-> errors[i].args[1]]

\* C8: with allowedRelations given, every dotted filter, search, range or
\* order path whose text before the first dot is not in allowedRelations adds
\* an error naming that relation, and the result is not valid.
C8_EveryRelationChecked ==
    Validated /\ HasSpecification /\ specification.val.allowedRelations # Undef =>
        LET refused == SelectSeq(DottedPaths,
                LAMBDA k : ~Listed(specification.val.allowedRelations, BeforeFirstDot(k)))
        IN /\ RelationOf(ErrorsWith(RelationTexts))
                = [i \in 1..Len(refused) |-> Str(BeforeFirstDot(refused[i]))]
           /\ Len(refused) > 0 => validation.isValid = FALSE

\* the ISO-8601 UTC strings among the range bounds, and the order in time of
\* those that name an instant (month 13 names none)
IsoStrings == {Str(dEarly), Str(dFraction), Str(dLate), Str(dMonth13)}
Instant(v) ==
    CASE v = Str(dEarly) -> 1
      [] v = Str(dFraction) -> 2
      [] v = Str(dLate) -> 3
      [] OTHER -> 0
StartAfterEnd(range) ==
    /\ range.start \in IsoStrings
    /\ range.end \in IsoStrings
    /\ Instant(range.start) > 0
    /\ Instant(range.end) > 0
    /\ Instant(range.start) > Instant(range.end)

DateTexts == {"Range start date '%' is after end date '%'"}

Count(b) == IF b THEN 1 ELSE 0

\* C9: for a maxPageSize of at least 1: page < 1, rows < 1 and rows >
\* maxPageSize (when configured) each give their pagination error, and no
\* check stops another: the errors (and the warnings) of a request are those
\* of its filters alone, then of its search filters alone, of its ranged
\* filters alone, of its order key alone and of its pagination alone.
C9_Accumulated ==
    Validated /\ HasSpecification =>
        LET pageLow == IsInteger(filter.page) /\ filter.page.val < 1
            rowsLow == IsInteger(filter.rows) /\ filter.rows.val < 1
            rowsHigh == /\ IsInteger(filter.rows)
                        /\ specification.val.maxPageSize # Undef
                        /\ filter.rows.val > specification.val.maxPageSize.val
            Alone(f, s, r, ok, p, rw) ==
                validateQuery(Request(f, s, r, ok, Undef, p, rw), specification)
            fs == Alone(filter.filters, Undef, Undef, Undef, Undef, Undef)
            ss == Alone(Undef, filter.searchFilters, Undef, Undef, Undef, Undef)
            rs == Alone(Undef, Undef, filter.rangedFilters, Undef, Undef, Undef)
            os == Alone(Undef, Undef, Undef, filter.orderKey, Undef, Undef)
            ps == Alone(Undef, Undef, Undef, Undef, filter.page, filter.rows)
        IN /\ Len(ErrorsWith({"Page number must be greater than 0"})) = Count(pageLow)
           /\ Len(ErrorsWith({"Rows per page must be greater than 0"})) = Count(rowsLow)
           /\ Len(ErrorsWith({"Rows per page cannot exceed %"})) = Count(rowsHigh)
           /\ validation.errors
                = fs.errors \o ss.errors \o rs.errors \o os.errors \o ps.errors
           /\ validation.warnings
                = fs.warnings \o ss.warnings \o rs.warnings \o os.warnings
           /\ validation.isValid = (Len(validation.errors) = 0)

C9_Witness ==
    /\ Validated
    /\ HasSpecification
    /\ filter.page = Num(0)
    /\ filter.rows = Num(0)
    /\ filter.filters = Obj(<<Entry(fRX, sS)>>)
    /\ filter.rangedFilters = Arr(<<Range(fA, Str(dLate), Str(dEarly))>>)
    /\ Len(validation.errors) = 4
    /\ validation.isValid = FALSE

\* C10: the date-order errors are those of the ranged filters whose start and
\* end are both ISO-8601 UTC strings with start later than end, in input
\* order, each naming its start and end; a bound that is not a string or not
\* an ISO string gives none, whatever the order of the bounds.
C10_DateOrder ==
    Validated /\ HasSpecification =>
        LET reversed == SelectSeq(Ranges, StartAfterEnd)
            dated == ErrorsWith(DateTexts)
        IN /\ Len(dated) = Len(reversed)
           /\ \A i \in 1..Len(reversed) :
                 dated[i].args = <<reversed[i].start, reversed[i].end>>

C10_Witness ==
    /\ Validated
    /\ HasSpecification
    /\ filter.rangedFilters = Arr(<<Range(fA, Str(dLate), Str(dFraction))>>)
    /\ Len(validation.errors) = 1
    /\ validation.errors[1].args = <<Str(dLate), Str(dFraction)>>

-----------------------------------------------------------------------------
\* C11: without a specification, validate answers isValid = true with no
\* errors and no warnings for every request, whatever its page, rows and
\* date ranges.
C11_NoSpecification ==
    (Validated /\ ~HasSpecification)
        => /\ validation.isValid = TRUE
           /\ validation.errors = <<>>
           /\ validation.warnings = <<>>

\* validated without a specification: page 0, rows 0 and a range whose start
\* is after its end
C11_Witness ==
    /\ Validated
    /\ ~HasSpecification
    /\ filter.page = Num(0)
    /\ filter.rows = Num(0)
    /\ filter.rangedFilters = Arr(<<Range(fA, Str(dLate), Str(dEarly))>>)
    /\ validation.isValid = TRUE

-----------------------------------------------------------------------------
LastCall == calls[Len(calls)]

\* the where tree given to transformWhereClause, once it has been called
WhereGiven == calls[CHOOSE i \in 1..Len(calls) : calls[i].name = "transformWhereClause"].arg

\* the default predicate of a bare scalar
DefaultPredicate(v) ==
    IF v.kind = "string" THEN Obj(<<Entry(kContains, v)>>)
    ELSE Obj(<<Entry(kEquals, v)>>)

DefaultWrapped(v) ==
    CASE IsArray(v) -> Arr([i \in 1..Len(v.val) |-> DefaultPredicate(v.val[i])])
      [] IsNullish(v) -> v
      [] OTHER -> DefaultPredicate(v)

\* the request f with every bare scalar of its filters in its default predicate
WithWrappedScalars(f) ==
    [f EXCEPT !.filters =
        IF Truthy(@)
        THEN Obj([i \in 1..Len(@.val) |-> Entry(@.val[i].key, DefaultWrapped(@.val[i].val))])
        ELSE @]

\* no condition of the compiled tree is or becomes empty: the AND has elements
\* and no filter value is an empty array
NothingToRemove(f) ==
    /\ Len(AndOf(buildFilterQuery(f))) > 0
    /\ Truthy(f.filters) => \A i \in 1..Len(f.filters.val) : f.filters.val[i].val # Arr(<<>>)

\* C12: under an empty configuration transformWhereClause returns the compiled
\* tree with the same nesting, keys and predicates, bare scalars alone being
\* wrapped in their default predicate: the result is the tree compiled from
\* the request whose filter scalars are already wrapped.
C12_EmptyConfigKeepsTree ==
    (/\ filter # Undef
     /\ transformConfig \in EmptyConfigs
     /\ Called("transformWhereClause")
     /\ NothingToRemove(filter))
        => query.where = buildFilterQuery(WithWrappedScalars(filter)).where

-----------------------------------------------------------------------------
\* C13: build(request).query is what buildWithoutValidation(request) returns
\* and build(request).validation is what validate(request) returns; the query
\* is the compiled, and under a configuration transformed, query also when
\* the validation has errors.
C13_BuildAgrees ==
    (Len(calls) > 0 /\ LastCall.name = "build")
        => /\ query = buildWithoutValidation(This, LastCall.arg)
           /\ validation = validate(This, LastCall.arg)
           /\ query.take = buildFilterQuery(LastCall.arg).take
           /\ query.skip = buildFilterQuery(LastCall.arg).skip
           /\ query.where =
                  IF Truthy(transformConfig)
                  THEN transformWhereClause(buildFilterQuery(LastCall.arg).where,
                                            transformConfig)
                  ELSE buildFilterQuery(LastCall.arg).where

\* a build under a configuration whose validation has errors and whose where
\* the transformer changed
C13_Witness ==
    /\ Len(calls) > 0
    /\ LastCall.name = "build"
    /\ validation.isValid = FALSE
    /\ Truthy(transformConfig)
    /\ query.where # buildFilterQuery(filter).where
    /\ Len(query.where.val) > 0

Max(S) == CHOOSE n \in S : \A m \in S : m <= n

\* the argument of the last call of a setter, or what the constructor was
\* given where the setter was never called
MostRecently(setter, given) ==
    LET at == {i \in 1..Len(calls) : calls[i].name = setter}
    IN IF at = {} THEN calls[1].arg[given] ELSE calls[Max(at)].arg

\* a new instance constructed with the specification and the configuration
\* most recently set
Fresh ==
    constructor(MostRecently("setSpecification", 1),
                MostRecently("setTransformConfig", 2))

\* C14: after any calls on one instance, what build, buildWithoutValidation
\* and validate return is what they return on a new instance constructed with
\* the specification and the configuration most recently set.
C14_OnlyLastSettersCount ==
    (Len(calls) > 0 /\ LastCall.name # "constructor")
        => /\ LastCall.name = "build" =>
                /\ query = build(Fresh, LastCall.arg).query
                /\ validation = build(Fresh, LastCall.arg).validation
           /\ LastCall.name = "buildWithoutValidation" =>
                query = buildWithoutValidation(Fresh, LastCall.arg)
           /\ LastCall.name = "validate" =>
                validation = validate(Fresh, LastCall.arg)

\* a build after both setters were called, on an instance constructed with
\* another specification and another configuration, that differs from what
\* the constructor's values give
C14_Witness ==
    /\ Len(calls) = 4
    /\ calls[1].arg = <<StrictSpecification, MappingConfig>>
    /\ calls[2].name = "setTransformConfig"
    /\ calls[3].name = "setSpecification"
    /\ LastCall.name = "build"
    /\ query # build(constructor(StrictSpecification, MappingConfig), LastCall.arg).query
    /\ validation # build(constructor(StrictSpecification, MappingConfig), LastCall.arg).validation

-----------------------------------------------------------------------------
Extracted == queryParams # Undef /\ filter # Undef

JsonNames == {"filters", "searchFilters", "rangedFilters"}
ParameterNames == JsonNames \cup {"orderKey", "orderRule", "page", "rows"}

\* the parameter is given as a text, or as an array led by a text, that is
\* not JSON
Malformed(p) ==
    \/ p.kind = "string" /\ p.val \in MalformedTexts
    \/ p.kind = "array" /\ Len(p.val) > 0 /\ p.val[1].val \in MalformedTexts

Without(params, names) ==
    [n \in ParameterNames |-> IF n \in names THEN Undef ELSE params[n]]

\* C15: extractQueryFromParams returns a request for every mapping; a
\* filters, searchFilters or rangedFilters parameter that is not JSON is left
\* out of it, every other property is what it is when the malformed
\* parameters are not given at all, and a parameter not given is left out.
C15_MalformedJsonSkipped ==
    Extracted =>
        LET bad == {n \in JsonNames : Malformed(queryParams[n])}
        IN /\ filter # Thrown
           /\ DOMAIN filter = ParameterNames
           /\ \A n \in bad : filter[n] = Undef
           /\ \A n \in ParameterNames \ bad :
                  filter[n] = extractQueryFromParams(Without(queryParams, bad))[n]
           /\ \A n \in ParameterNames : queryParams[n] = Undef => filter[n] = Undef

\* extracted from a malformed filters and a malformed rangedFilters beside a
\* searchFilters, an orderKey and a page that are populated
C15_Witness ==
    /\ Extracted
    /\ queryParams.filters = Str(jBadEnd)
    /\ queryParams.rangedFilters = Str(jBadComma)
    /\ filter.filters = Undef
    /\ filter.rangedFilters = Undef
    /\ filter.searchFilters = Obj(<<Entry(fA, sS)>>)
    /\ filter.orderKey = Str(fA)
    /\ filter.page = Num(2)

-----------------------------------------------------------------------------
\* C16: for every request compiled, take and skip are integers greater than
\* or equal to 0.
C16_TakeSkipNonNegative ==
    Compiled =>
        /\ IsInteger(query.take) /\ query.take.val >= 0
        /\ IsInteger(query.skip) /\ query.skip.val >= 0

-----------------------------------------------------------------------------
\* C17: for every request extracted from raw parameters, compiling and then
\* transforming it returns a query and raises nothing.
C17_NoFailurePath ==
    (Extracted /\ LastCall.name = "buildWithoutValidation") => query # Thrown

-----------------------------------------------------------------------------
\* the elements of the AND of the where tree given to transformWhereClause
AndGiven == Get(WhereGiven, kAND).val

\* the scalar inside the compiler's predicate wrapper, or the bare scalar
RawScalar(value) ==
    IF value.kind = "object" /\ In(kContains, value) THEN Get(value, kContains)
    ELSE value

\* the where tree given is one condition on the field a, a bare scalar or a
\* contains-predicate, a is mapped to a relation and has a custom relation
\* handler
HandledByRelationHandler ==
    /\ filter # Undef
    /\ Called("transformWhereClause")
    /\ Len(AndGiven) = 1
    /\ Len(AndGiven[1].val) = 1
    /\ AndGiven[1].val[1].key = fA
    /\ \/ AndGiven[1].val[1].val.kind \in {"string", "number"}
       \/ /\ AndGiven[1].val[1].val.kind = "object"
          /\ In(kContains, AndGiven[1].val[1].val)
    /\ Truthy(Get(transformConfig.val.fieldMappings, fA))
    /\ Truthy(Get(OrEmpty(transformConfig.val.relationHandlers), fA))
    /\ Truthy(Get(transformConfig.val.relationHandlers, fA).val.customHandler)

\* C18: a field mapped to a relation that has a custom relation handler gives
\* what the handler returns for the raw scalar taken out of the predicate
\* wrapper and the actual field name, placed under the relation; a null
\* result drops the field.
C18_RelationHandlerArguments ==
    HandledByRelationHandler =>
        LET value == AndGiven[1].val[1].val
            relation == Get(transformConfig.val.fieldMappings, fA).val
            renamed == Get(OrEmpty(transformConfig.val.fieldNameMappings), fA)
            actualField == IF Truthy(renamed) THEN renamed.val ELSE fA
            handler == Get(transformConfig.val.relationHandlers, fA).val.customHandler
            result == Call(handler, <<RawScalar(value), Str(actualField)>>)
        IN query.where =
               IF result.kind = "null" THEN Obj(<<>>)
               ELSE Obj(<<Entry(kAND, Arr(<<Obj(<<Entry(relation, result)>>)>>))>>)

-----------------------------------------------------------------------------
\* an object with at least one key
NonEmptyObject(c) == c.kind = "object" /\ Len(c.val) > 0

AllNonEmpty(seq) == \A i \in 1..Len(seq) : NonEmptyObject(seq[i])

\* the conditions of seq transformed one by one, those left without a key
\* taken out
Surviving(seq) ==
    SelectSeq([i \in 1..Len(seq) |-> transformCondition(seq[i], transformConfig)],
              NonEmptyObject)

\* an AND element that is an OR of conditions
IsOrElement(c) == Get(c, kOR).kind = "array"

\* what is left of one AND element: an OR of its surviving conditions, or
\* nothing when none survives; a plain condition if it survives
SurvivingElement(c) ==
    IF IsOrElement(c)
    THEN IF Len(Surviving(Get(c, kOR).val)) > 0
         THEN <<Obj(<<Entry(kOR, Arr(Surviving(Get(c, kOR).val)))>>)>>
         ELSE <<>>
    ELSE Surviving(<<c>>)

RECURSIVE SurvivingElements(_)
SurvivingElements(seq) ==
    IF Len(seq) = 0 THEN <<>>
    ELSE SurvivingElement(Head(seq)) \o SurvivingElements(Tail(seq))

\* C19: the result of transformWhereClause holds no empty object in an AND or
\* OR and no OR without elements: conditions left without a key are taken
\* out, a nested OR left without conditions is taken out of the AND, and a
\* tree left without elements is the empty object.
C19_NoEmptyElements ==
    (Called("transformWhereClause") /\ Truthy(WhereGiven))
        => LET and == Get(query.where, kAND)
               or == Get(query.where, kOR)
           IN /\ query.where.kind = "object"
              /\ and.kind = "array" =>
                    /\ Len(and.val) > 0
                    /\ AllNonEmpty(and.val)
                    /\ \A i \in 1..Len(and.val) :
                          IsOrElement(and.val[i]) =>
                              /\ Len(Get(and.val[i], kOR).val) > 0
                              /\ AllNonEmpty(Get(and.val[i], kOR).val)
              /\ or.kind = "array" => Len(or.val) > 0 /\ AllNonEmpty(or.val)
              /\ Get(WhereGiven, kAND).kind = "array" =>
                    query.where =
                        IF Len(SurvivingElements(AndGiven)) = 0 THEN Obj(<<>>)
                        ELSE Obj(<<Entry(kAND, Arr(SurvivingElements(AndGiven)))>>)
              /\ (Get(WhereGiven, kAND).kind # "array" /\ Get(WhereGiven, kOR).kind = "array") =>
                    query.where =
                        IF Len(Surviving(Get(WhereGiven, kOR).val)) = 0 THEN Obj(<<>>)
                        ELSE Obj(<<Entry(kOR, Arr(Surviving(Get(WhereGiven, kOR).val)))>>)

\* the tree given is an AND of one OR of one condition, the condition is left
\* without a key, and the result is the empty object
C19_Witness ==
    /\ Called("transformWhereClause")
    /\ Truthy(WhereGiven)
    /\ Len(AndGiven) = 1
    /\ IsOrElement(AndGiven[1])
    /\ Len(Get(AndGiven[1], kOR).val) = 1
    /\ Len(transformCondition(Get(AndGiven[1], kOR).val[1], transformConfig).val) = 0
    /\ query.where = Obj(<<>>)

-----------------------------------------------------------------------------
\* the number a string of the inputs denotes, NaN where it denotes none
Denoted(v) ==
    CASE v = s7 -> Num(7)
      [] v = sBlank7 -> Num(7)
      [] v = sMinus7 -> Num(0 - 7)
      [] v = sEmpty -> Num(0)
      [] OTHER -> NaN

\* the strings of the inputs that are 'true' but for the case of the letters
TrueStrings == {sTrue, sTRUE}

\* the where tree given is one condition on the field a, a bare scalar or a
\* contains-predicate, and a has a type handler of that type without custom
\* logic and no relation handler
TypedBy(type) ==
    /\ filter # Undef
    /\ Called("transformWhereClause")
    /\ Len(AndGiven) = 1
    /\ Len(AndGiven[1].val) = 1
    /\ AndGiven[1].val[1].key = fA
    /\ RawScalar(AndGiven[1].val[1].val).kind \in {"string", "number"}
    /\ Truthy(Get(OrEmpty(transformConfig.val.fieldTypeHandlers), fA))
    /\ Get(transformConfig.val.fieldTypeHandlers, fA).val.type = Str(type)
    /\ ~Truthy(Get(transformConfig.val.fieldTypeHandlers, fA).val.customHandler)
    /\ ~Truthy(Get(OrEmpty(transformConfig.val.relationHandlers), fA))

\* the where tree that holds the one field a with its processed value, under
\* its relation and its actual name; the empty object when the field drops
WhereOfA(processed) ==
    LET relation == Get(transformConfig.val.fieldMappings, fA)
        renamed == Get(OrEmpty(transformConfig.val.fieldNameMappings), fA)
        actualField == IF Truthy(renamed) THEN renamed.val ELSE fA
        field == Obj(<<Entry(actualField, processed)>>)
    IN IF processed.kind = "null" THEN Obj(<<>>)
       ELSE IF Truthy(relation)
       THEN Obj(<<Entry(kAND, Arr(<<Obj(<<Entry(relation.val, field)>>)>>))>>)
       ELSE Obj(<<Entry(kAND, Arr(<<field>>))>>)

\* C20: under a type handler without custom logic, type number turns a string
\* into the number it denotes, drops the field when it denotes none, and
\* otherwise gives {operator or 'equals': number}; type boolean gives true
\* for a string that is 'true' in any case, false for another string, the
\* truthiness of another value, and always {equals: boolean}.
C20_NumberAndBoolean ==
    LET raw == RawScalar(AndGiven[1].val[1].val)
        handler == Get(transformConfig.val.fieldTypeHandlers, fA)
        operator == IF handler.val.searchOperator = Undef THEN kEquals
                    ELSE handler.val.searchOperator.val
        number == IF raw.kind = "string" THEN Denoted(raw) ELSE raw
        boolean == IF raw.kind = "string" THEN raw \in TrueStrings ELSE raw.val # 0
    IN /\ TypedBy(tNumber) =>
            query.where =
                WhereOfA(IF number.kind = "NaN" THEN Null
                         ELSE Obj(<<Entry(operator, number)>>))
       /\ TypedBy(tBoolean) =>
            query.where = WhereOfA(Obj(<<Entry(kEquals, Bool(boolean))>>))

\* a string 'TRUE' under type boolean with an operator configured, and the
\* result {equals: true}
C20_Witness ==
    /\ TypedBy(tBoolean)
    /\ RawScalar(AndGiven[1].val[1].val) = sTRUE
    /\ Get(transformConfig.val.fieldTypeHandlers, fA).val.searchOperator = Str(kGte)
    /\ query.where = WhereOfA(Obj(<<Entry(kEquals, Bool(TRUE))>>))

-----------------------------------------------------------------------------
\* the page or the rows extracted is not a number
NaNPagination == filter.page = NaN \/ filter.rows = NaN

\* C21: a request extracted with a not-a-number page or rows, validated with
\* a specification, is reported not valid, with at least one error.
C21_NaNPaginationDetected ==
    (Extracted /\ Validated /\ Truthy(specification) /\ NaNPagination) =>
        /\ ~validation.isValid
        /\ Len(validation.errors) > 0

====
